---- MODULE Spec2Model ----
(***************************************************************************)
(* Quiz chain orchestration engine: one chain driven by                    *)
(* QuizOrchestrator.solve_quiz_chain under the deadline of                 *)
(* main.solve_quiz_task, with AnswerSubmitter.submit_answer as the         *)
(* submission protocol.  The rendering backend, the language model, the    *)
(* category solvers and the remote judge are the environment: each call    *)
(* to one of them is a position of the chain (an await) that the           *)
(* environment ends by a return or by an exception, and at which the       *)
(* deadline may cancel the chain.                                          *)
(***************************************************************************)
EXTENDS Integers, Sequences, FiniteSets, TLC

VARIABLES
    pc,               \* position of the chain's coroutine
    current_url,      \* solve_quiz_chain: current_url
    question_count,   \* solve_quiz_chain: question_count
    results,          \* QuizOrchestrator.results
    url,              \* solve_single_quiz: url (the page of the running step)
    quiz_content,     \* solve_single_quiz: quiz_content (Task Descriptor)
    answer,           \* solve_single_quiz: answer
    result,           \* solve_single_quiz: result
    submitter_client, \* AnswerSubmitter.client
    data_client,      \* DataHandler.client
    pdf_client,       \* PDFHandler.client
    renders,          \* calls of BrowserService.execute_and_get_content
    posts,            \* POSTs issued by the chain
    step_posts,       \* POSTs issued by the running step
    solver_calls,     \* calls of a text or category solver by the running step
    vision_calls,     \* calls of LLMService.analyze_with_vision by the running step
    first_verdict,    \* what the step's first submit_answer returned
    vision_at_first,  \* vision_calls when the first verdict arrived
    verdicts,         \* per step started: the latest value the step produced
    completed,        \* number of steps whose solve_single_quiz returned
    response,         \* what the judge answered to the step's latest POST
    always_next_url,  \* every verdict so far carried a non-empty url
    failure,          \* the exception that left solve_single_quiz, if any
    exit_path,        \* how the chain ended
    step_submits,     \* calls of submit_answer by the running step
    step_replies,     \* calls of submit_answer that returned to the running step
    request,          \* main.solve_quiz: the inbound trigger
    caller,           \* main.solve_quiz: what the trigger's caller received
    tasks,            \* main.solve_quiz: background chains created
    c_pc,             \* concurrent chains: position of each chain's coroutine
    orchestrators,    \* concurrent chains: the fields of each QuizOrchestrator
    lists,            \* heap: the list objects holding recorded results
    http_clients,     \* heap: the httpx clients of the submitters
    served,           \* per chain: the verdicts the judge gave to its steps
    browser,          \* BrowserService._browser
    lock,             \* BrowserService._lock: the chain holding it, or 0
    contexts,         \* browsing contexts that are open
    visits,           \* per chain: the page visit it is making
    arg,              \* pure functions: the input of the call studied
    ret               \* pure functions: what the call returned

vars == <<pc, current_url, question_count, results, url, quiz_content, answer,
          result, submitter_client, data_client, pdf_client, renders, posts,
          step_posts, solver_calls, vision_calls, first_verdict,
          vision_at_first, verdicts, completed, response, always_next_url,
          failure, exit_path, step_submits, step_replies, request, caller,
          tasks, c_pc, orchestrators, lists, http_clients, served, browser,
          lock, contexts, visits, arg, ret>>

(***************************************************************************)
(* Bounds and value sets                                                   *)
(***************************************************************************)
\* max_questions of the modelled chain (the code's default is 20)
MaxQuestions == 2

None == "None"
URLs == {"u1", "u2"}
InitialUrls == {"u1", ""}

\* config.Settings.STORED_SECRET, and what a trigger may carry instead
STORED_SECRET == "stored"
Secrets == {STORED_SECRET, "wrong"}

HTTP_OK == 200
Statuses == {HTTP_OK, 500}

\* Python truthiness of an Optional[str]
Truthy(s) == s # None /\ s # ""

(***************************************************************************)
(* models.QuizResult                                                       *)
(***************************************************************************)
QuizResult(c, u, r) == [correct |-> c, url |-> u, reason |-> r]

NoResult == [correct |-> FALSE, url |-> "-", reason |-> "-"]

(***************************************************************************)
(* The judge's answers to a POST, as the HTTP client hands them over:      *)
(* a transport failure, or a status with a body.  A JSON-object body is a  *)
(* function from the keys it carries to their values; every key is         *)
(* optional.                                                               *)
(***************************************************************************)
EmptyBody == [k \in {} |-> k]
CorrectPart == {EmptyBody} \cup {[correct |-> c] : c \in BOOLEAN}
UrlPart == {EmptyBody} \cup {[url |-> u] : u \in URLs \cup {""}}
ReasonPart == {EmptyBody} \cup {[reason |-> "r"]}
JsonObjects == {c @@ u @@ r : c \in CorrectPart, u \in UrlPart, r \in ReasonPart}

Responses ==
    {[kind |-> "transport_error", status |-> 0, json |-> FALSE, body |-> EmptyBody]}
    \cup {[kind |-> "http", status |-> HTTP_OK, json |-> TRUE, body |-> b] : b \in JsonObjects}
    \cup {[kind |-> "http", status |-> HTTP_OK, json |-> FALSE, body |-> EmptyBody]}
    \cup {[kind |-> "http", status |-> s, json |-> FALSE, body |-> EmptyBody] :
            s \in Statuses \ {HTTP_OK}}

NoResponse == [kind |-> "none", status |-> 0, json |-> FALSE, body |-> EmptyBody]

\* dict.get(key, default)
Get(d, key, default) == IF key \in DOMAIN d THEN d[key] ELSE default

\* Variant that lets a transport failure escape to the caller.
submit_answer_raises(resp) ==
    IF resp.kind = "transport_error"
    THEN [raised |-> TRUE, value |-> NoResult]
    ELSE IF resp.status = HTTP_OK
         THEN IF resp.json
              THEN [raised |-> FALSE,
                    value |-> QuizResult(Get(resp.body, "correct", FALSE),
                                         Get(resp.body, "url", None),
                                         Get(resp.body, "reason", None))]
              ELSE [raised |-> FALSE,
                    value |-> QuizResult(FALSE, None, "json decode error")]
         ELSE [raised |-> FALSE,
               value |-> QuizResult(FALSE, None, "HTTP error status")]

\* Variant whose missing "correct" counts as correct.
submit_answer_default_true(resp) ==
    IF resp.kind = "transport_error"
    THEN [raised |-> FALSE, value |-> QuizResult(FALSE, None, "transport error")]
    ELSE IF resp.status = HTTP_OK
         THEN IF resp.json
              THEN [raised |-> FALSE,
                    value |-> QuizResult(Get(resp.body, "correct", TRUE),
                                         Get(resp.body, "url", None),
                                         Get(resp.body, "reason", None))]
              ELSE [raised |-> FALSE,
                    value |-> QuizResult(FALSE, None, "json decode error")]
         ELSE [raised |-> FALSE,
               value |-> QuizResult(FALSE, None, "HTTP error status")]

\* AnswerSubmitter.submit_answer: the outcome of the call for one response.
\* raised tells whether an exception leaves the call.
submit_answer(resp) ==
    IF resp.kind = "transport_error"
    THEN \* client.post raised: except Exception
         [raised |-> FALSE, value |-> QuizResult(FALSE, None, "transport error")]
    ELSE IF resp.status = HTTP_OK
         THEN IF resp.json
              THEN [raised |-> FALSE,
                    value |-> QuizResult(Get(resp.body, "correct", FALSE),
                                         Get(resp.body, "url", None),
                                         Get(resp.body, "reason", None))]
              ELSE \* response.json() raised: except Exception
                   [raised |-> FALSE,
                    value |-> QuizResult(FALSE, None, "json decode error")]
         ELSE [raised |-> FALSE,
               value |-> QuizResult(FALSE, None, "HTTP error status")]

(***************************************************************************)
(* models.QuizContent as far as the orchestrator reads it: whether a       *)
(* submission URL was found, the category, whether a download URL was      *)
(* found, and whether question + raw_html hold a relative path to scrape.  *)
(***************************************************************************)
QuizContent(s, t, d, p) ==
    [submission_url |-> s, quiz_type |-> t, download_url |-> d, scrape_path |-> p]

NoContent == QuizContent("-", "-", "-", FALSE)

QuizContents ==
    { QuizContent("", "general", None, FALSE),
      QuizContent("/submit", "general", None, FALSE),
      QuizContent("/submit", "visualization", None, FALSE),
      QuizContent("/submit", "api", None, FALSE),
      QuizContent("/submit", "pdf", "/f.pdf", FALSE),
      QuizContent("/submit", "data", "/f.csv", FALSE),
      QuizContent("/submit", "data", None, FALSE),
      QuizContent("/submit", "scraping", None, TRUE),
      QuizContent("/submit", "scraping", None, FALSE) }

Answers == {"value", None}

NoFailure == [kind |-> "none", vision |-> 0]

(***************************************************************************)
(* Concurrent chains and the shared BrowserService                         *)
(***************************************************************************)
\* The background tasks running at the same time
Chains == {1, 2}

\* Objects of the heap: one list and one client may exist per orchestrator
ListIds == Chains
ClientIds == Chains

\* Browsing contexts that can be open at once: per chain the one of its
\* running visit and one left open by an earlier visit
ContextIds == 1..4

Email(c) == IF c = 1 THEN "e1" ELSE "e2"

NoOrchestrator ==
    [email |-> None, secret |-> None, results |-> 0, client |-> 0,
     current_url |-> None, question_count |-> 0]

NoVisit == [kind |-> "none", context |-> 0, outcome |-> "none"]

\* What the judge may answer to a step of a concurrent chain
ConcVerdicts ==
    { QuizResult(TRUE, "u2", None),
      QuizResult(FALSE, "u1", "r"),
      QuizResult(TRUE, None, None) }

\* No pure function is under study.
NoCall == "no call"
Pending == "pending"

\* The chains' own state is at rest while a single chain is studied.
ConcIdle ==
    /\ arg = NoCall
    /\ ret = NoCall
    /\ c_pc = [c \in Chains |-> "off"]
    /\ orchestrators = [c \in Chains |-> NoOrchestrator]
    /\ lists = [i \in ListIds |-> <<>>]
    /\ http_clients = [i \in ClientIds |-> "unmade"]
    /\ served = [c \in Chains |-> <<>>]
    /\ browser = "running"
    /\ lock = 0
    /\ contexts = {}
    /\ visits = [c \in Chains |-> NoVisit]

(***************************************************************************)
(* Positions.  The await positions are those at which the coroutine is     *)
(* suspended in a call to a collaborator; only there can the deadline's    *)
(* cancellation be delivered.                                              *)
(***************************************************************************)
DispatchAwaits ==
    {"data_vision", "solve_data", "solve_pdf", "scrape_fetch", "scrape_llm",
     "api_llm", "vision"}

AwaitPoints ==
    {"fetch", "submit1", "retry_vision", "submit2", "closing"} \cup DispatchAwaits

StepPositions ==
    {"fetch", "parse", "dispatch", "submit1", "check", "retry_vision",
     "submit2", "record"} \cup DispatchAwaits

Init ==
    /\ pc = "loop"
    /\ current_url \in InitialUrls
    /\ question_count = 0
    /\ results = <<>>
    /\ url = None
    /\ quiz_content = NoContent
    /\ answer = None
    /\ result = NoResult
    /\ submitter_client = "open"
    /\ data_client = "open"
    /\ pdf_client = "open"
    /\ renders = 0
    /\ posts = 0
    /\ step_posts = 0
    /\ solver_calls = 0
    /\ vision_calls = 0
    /\ first_verdict = NoResult
    /\ vision_at_first = 0
    /\ verdicts = <<>>
    /\ completed = 0
    /\ response = NoResponse
    /\ always_next_url = TRUE
    /\ failure = NoFailure
    /\ exit_path = "running"
    /\ step_submits = 0
    /\ step_replies = 0
    /\ request = [email |-> "e", secret |-> STORED_SECRET, url |-> current_url]
    /\ caller = "accepted"
    /\ tasks = 1
    /\ ConcIdle

api_vars == <<request, caller, tasks>>
browser_vars == <<browser, lock, contexts, visits>>
conc_vars == <<c_pc, orchestrators, lists, http_clients, served, browser_vars>>
fn_vars == <<arg, ret>>
outside == <<api_vars, conc_vars, fn_vars>>
submit_ghosts == <<step_submits, step_replies>>
clients == <<submitter_client, data_client, pdf_client>>
chain_vars == <<current_url, question_count, results>>
step_locals == <<url, quiz_content, answer, result>>
step_ghosts == <<first_verdict, vision_at_first>>
judge_ghosts == <<response, always_next_url>>
counters == <<renders, posts, step_posts, solver_calls, vision_calls>>

(***************************************************************************)
(* solve_quiz_chain: the while loop                                        *)
(***************************************************************************)
\* Variant whose limit test lets one step too many through.
LoopCondOffByOne(u, count, max) == Truthy(u) /\ count <= max

\* Variant that tests the limit only.
LoopCondIgnoresUrl(u, count, max) == count < max

\* while current_url and question_count < max_questions
LoopCond(u, count, max) == Truthy(u) /\ count < max

\* The loop test holds: count the step and call solve_single_quiz, which
\* calls BrowserService.execute_and_get_content(url).
StartStep ==
    /\ pc = "loop"
    /\ LoopCond(current_url, question_count, MaxQuestions)
    /\ question_count' = question_count + 1
    /\ url' = current_url
    /\ quiz_content' = NoContent
    /\ answer' = None
    /\ result' = NoResult
    /\ renders' = renders + 1
    /\ step_posts' = 0
    /\ solver_calls' = 0
    /\ vision_calls' = 0
    /\ first_verdict' = NoResult
    /\ vision_at_first' = 0
    /\ pc' = "fetch"
    /\ verdicts' = Append(verdicts, NoResult)
    /\ response' = NoResponse
    /\ step_submits' = 0
    /\ step_replies' = 0
    /\ UNCHANGED always_next_url
    /\ UNCHANGED <<outside, current_url, results, clients, posts, completed, failure,
                   exit_path>>

\* The loop test fails: fall out of the loop to submitter.close().
ExitLoop ==
    /\ pc = "loop"
    /\ ~LoopCond(current_url, question_count, MaxQuestions)
    /\ pc' = "closing"
    /\ exit_path' = IF Truthy(current_url) THEN "limit"
                    ELSE IF failure.kind = "parse" THEN "parse_failure"
                    ELSE "complete"
    /\ UNCHANGED <<outside, submit_ghosts, judge_ghosts, chain_vars, step_locals, clients, counters, step_ghosts,
                   verdicts, completed, failure>>

\* Variant whose handler goes on with the loop instead of leaving it.
BreakContinues(kind) ==
    /\ pc' = "loop"
    /\ failure' = [kind |-> kind, vision |-> vision_calls]
    /\ UNCHANGED <<outside, submit_ghosts, judge_ghosts, chain_vars, step_locals, clients, counters,
                   step_ghosts, verdicts, completed, exit_path>>

\* An exception leaves solve_single_quiz: except Exception logs and breaks.
Break(kind) ==
    /\ pc' = "closing"
    /\ failure' = [kind |-> kind, vision |-> vision_calls]
    /\ exit_path' = "exception"
    /\ UNCHANGED <<outside, submit_ghosts, judge_ghosts, chain_vars, step_locals, clients, counters, step_ghosts, verdicts, completed>>

(***************************************************************************)
(* solve_single_quiz                                                       *)
(***************************************************************************)
\* Step 1 returns the rendered page; the page is the environment's choice,
\* seen through the descriptor QuizParser.parse_quiz_page makes of it.
FetchReturn ==
    /\ pc = "fetch"
    /\ \E c \in QuizContents : quiz_content' = c
    /\ pc' = "parse"
    /\ UNCHANGED <<outside, submit_ghosts, judge_ghosts, chain_vars, url, answer, result, clients, counters,
                   step_ghosts, verdicts, completed, failure, exit_path>>

\* Step 1 raises (navigation timeout, browser failure).
FetchRaise ==
    /\ pc = "fetch"
    /\ Break("render")

\* Step 2: no submission URL returns the failure result at once.
Parse ==
    /\ pc = "parse"
    /\ IF quiz_content.submission_url = ""
       THEN /\ result' = QuizResult(FALSE, None, "No submission URL found")
            /\ failure' = [kind |-> "parse", vision |-> vision_calls]
            /\ verdicts' = [verdicts EXCEPT ![question_count] =
                                QuizResult(FALSE, None, "No submission URL found")]
            /\ pc' = "record"
       ELSE /\ pc' = "dispatch"
            /\ UNCHANGED <<result, failure, verdicts>>
    /\ UNCHANGED <<outside, submit_ghosts, judge_ghosts, chain_vars, url, quiz_content, answer, clients, counters,
                   step_ghosts, completed, exit_path>>

\* A variant that sends api tasks to the default branch.
DispatchTargetApiByDefault(qc) ==
    IF qc.quiz_type = "pdf" /\ Truthy(qc.download_url) THEN "solve_pdf"
    ELSE IF qc.quiz_type = "data" THEN "data_vision"
    ELSE IF qc.quiz_type = "scraping"
         THEN IF qc.scrape_path THEN "scrape_fetch" ELSE "vision"
    ELSE "vision"

\* _solve_by_type: the first call the dispatch makes for a descriptor.
DispatchTarget(qc) ==
    IF qc.quiz_type = "pdf" /\ Truthy(qc.download_url) THEN "solve_pdf"
    ELSE IF qc.quiz_type = "data" THEN "data_vision"
    ELSE IF qc.quiz_type = "scraping"
         THEN IF qc.scrape_path THEN "scrape_fetch" ELSE "vision"
    ELSE IF qc.quiz_type = "api" THEN "api_llm"
    ELSE "vision"

VisionPositions == {"data_vision", "vision", "retry_vision"}
SolverPositions == {"solve_data", "solve_pdf", "scrape_llm", "api_llm"}

\* Entering position p places the call that p awaits.
CountCall(p) ==
    /\ vision_calls' = IF p \in VisionPositions THEN vision_calls + 1 ELSE vision_calls
    /\ solver_calls' = IF p \in SolverPositions THEN solver_calls + 1 ELSE solver_calls

\* Step 3: _solve_by_type routes by category.
Dispatch ==
    /\ pc = "dispatch"
    /\ pc' = DispatchTarget(quiz_content)
    /\ CountCall(pc')
    /\ UNCHANGED <<outside, submit_ghosts, judge_ghosts, chain_vars, step_locals, clients, renders, posts, step_posts,
                   step_ghosts, verdicts, completed, failure, exit_path>>

\* data: the page description arrived; delegate to data_handler.solve.
DataVisionReturn ==
    /\ pc = "data_vision"
    /\ pc' = "solve_data"
    /\ CountCall(pc')
    /\ UNCHANGED <<outside, submit_ghosts, judge_ghosts, chain_vars, step_locals, clients, renders, posts, step_posts,
                   step_ghosts, verdicts, completed, failure, exit_path>>

\* scraping: the path's content arrived; ask llm.analyze_quiz.
ScrapeFetchReturn ==
    /\ pc = "scrape_fetch"
    /\ pc' = "scrape_llm"
    /\ CountCall(pc')
    /\ UNCHANGED <<outside, submit_ghosts, judge_ghosts, chain_vars, step_locals, clients, renders, posts, step_posts,
                   step_ghosts, verdicts, completed, failure, exit_path>>

\* Variant that starts the POST without awaiting it.
SolverReturnUnawaited ==
    /\ pc \in SolverPositions \cup {"vision"}
    /\ \E a \in Answers : answer' = a
    /\ pc' = "check"
    /\ posts' = posts + 1
    /\ step_posts' = step_posts + 1
    /\ step_submits' = step_submits + 1
    /\ UNCHANGED <<outside, step_replies, judge_ghosts, chain_vars, url, quiz_content,
                   result, clients, renders, solver_calls, vision_calls, step_ghosts,
                   verdicts, completed, failure, exit_path>>

\* The last call of the dispatch returns the answer; Step 4 posts it.
SolverReturn ==
    /\ pc \in SolverPositions \cup {"vision"}
    /\ \E a \in Answers : answer' = a
    /\ pc' = "submit1"
    /\ posts' = posts + 1
    /\ step_posts' = step_posts + 1
    /\ step_submits' = step_submits + 1
    /\ UNCHANGED <<outside, step_replies, judge_ghosts, chain_vars, url, quiz_content, result, clients, renders,
                   solver_calls, vision_calls, step_ghosts, verdicts, completed,
                   failure, exit_path>>

\* A call of the dispatch raises.  _solve_by_type has no handler, so the
\* exception leaves solve_single_quiz.  PDFHandler.solve catches its own.
SolverRaise ==
    /\ pc \in DispatchAwaits \ {"solve_pdf"}
    /\ Break("solver")

\* Variant that posts once more after a transport failure.
post_attempts_retrying(resp) == IF resp.kind = "transport_error" THEN 2 ELSE 1

\* submit_answer: the client.post calls one call makes before it returns,
\* for the response the exchange ends with (one post, no loop around it).
post_attempts(resp) == 1

\* The call returns: the POSTs it made beyond the one placed on entry.
CountReply(resp) ==
    /\ posts' = posts + post_attempts(resp) - 1
    /\ step_posts' = step_posts + post_attempts(resp) - 1
    /\ step_replies' = step_replies + 1
    /\ UNCHANGED <<outside, step_submits, renders, solver_calls, vision_calls>>

\* Variant that records the first verdict as soon as it arrives.
Submit1ReturnRecorded ==
    /\ pc = "submit1"
    /\ \E resp \in Responses :
         LET out == submit_answer(resp) IN
         /\ ~out.raised
         /\ response' = resp
         /\ always_next_url' = (always_next_url /\ Truthy(out.value.url))
         /\ result' = out.value
         /\ first_verdict' = out.value
         /\ vision_at_first' = vision_calls
         /\ verdicts' = [verdicts EXCEPT ![question_count] = out.value]
         /\ results' = Append(results, out.value)
         /\ pc' = "check"
         /\ CountReply(resp)
         /\ UNCHANGED <<current_url, question_count, url, quiz_content, answer,
                        clients, completed, failure, exit_path>>

\* The first submit_answer ends.
Submit1Return ==
    /\ pc = "submit1"
    /\ \E resp \in Responses :
         LET out == submit_answer(resp) IN
         IF out.raised
         THEN /\ Break("submit")
              /\ UNCHANGED verdicts
         ELSE /\ response' = resp
              /\ always_next_url' = (always_next_url /\ Truthy(out.value.url))
              /\ result' = out.value
              /\ first_verdict' = out.value
              /\ vision_at_first' = vision_calls
              /\ verdicts' = [verdicts EXCEPT ![question_count] = out.value]
              /\ pc' = "check"
              /\ CountReply(resp)
              /\ UNCHANGED <<chain_vars, url, quiz_content, answer, clients,
                             completed, failure, exit_path>>

\* Variant that retries on every incorrect verdict, continuation URL or not.
ShouldRetryIgnoringUrl(r) == ~r.correct

\* Variant that never retries.
ShouldRetryNever(r) == FALSE

\* Variant that keeps the retry for verdicts the judge itself gave.
ShouldRetryOnlyJudged(r) ==
    /\ ~r.correct
    /\ r.url = None
    /\ r.reason \notin {"transport error", "HTTP error status", "json decode error"}

\* Variant that retries whenever the continuation URL is missing.
ShouldRetryNoUrl(r) == r.url = None

\* Variant that takes an empty continuation URL for a missing one.
ShouldRetryFalsyUrl(r) == ~r.correct /\ ~Truthy(r.url)

\* Step 5: if not result.correct and result.url is None
ShouldRetry(r) == ~r.correct /\ r.url = None

\* Variant whose retry renders the page again.
CheckRendersAgain ==
    /\ pc = "check"
    /\ IF ShouldRetry(result)
       THEN /\ pc' = "retry_vision"
            /\ CountCall(pc')
            /\ renders' = renders + 1
       ELSE /\ pc' = "record"
            /\ UNCHANGED <<solver_calls, vision_calls, renders>>
    /\ UNCHANGED <<outside, submit_ghosts, judge_ghosts, chain_vars, step_locals, clients, posts, step_posts,
                   step_ghosts, verdicts, completed, failure, exit_path>>

\* Step 5: retry through _solve_with_vision, or return the verdict.
Check ==
    /\ pc = "check"
    /\ IF ShouldRetry(result)
       THEN /\ pc' = "retry_vision"
            /\ CountCall(pc')
       ELSE /\ pc' = "record"
            /\ UNCHANGED <<solver_calls, vision_calls>>
    /\ UNCHANGED <<outside, submit_ghosts, judge_ghosts, chain_vars, step_locals, clients, renders, posts, step_posts,
                   step_ghosts, verdicts, completed, failure, exit_path>>

\* The retry's vision call returns; the answer is posted again.
RetryVisionReturn ==
    /\ pc = "retry_vision"
    /\ \E a \in Answers : answer' = a
    /\ pc' = "submit2"
    /\ posts' = posts + 1
    /\ step_posts' = step_posts + 1
    /\ step_submits' = step_submits + 1
    /\ UNCHANGED <<outside, step_replies, judge_ghosts, chain_vars, url, quiz_content, result, clients, renders,
                   solver_calls, vision_calls, step_ghosts, verdicts, completed,
                   failure, exit_path>>

\* Variant that catches the failure and returns the first verdict.
RetryVisionRaiseCaught ==
    /\ pc = "retry_vision"
    /\ pc' = "record"
    /\ failure' = [kind |-> "retry_vision", vision |-> vision_calls]
    /\ UNCHANGED <<outside, submit_ghosts, judge_ghosts, chain_vars, step_locals, clients,
                   counters, step_ghosts, verdicts, completed, exit_path>>

\* The retry's vision call raises; nothing in solve_single_quiz catches it.
RetryVisionRaise ==
    /\ pc = "retry_vision"
    /\ Break("retry_vision")

\* The second submit_answer ends; its verdict is returned whatever it is.
Submit2Return ==
    /\ pc = "submit2"
    /\ \E resp \in Responses :
         LET out == submit_answer(resp) IN
         IF out.raised
         THEN /\ Break("submit")
              /\ UNCHANGED verdicts
         ELSE /\ response' = resp
              /\ always_next_url' = (always_next_url /\ Truthy(out.value.url))
              /\ result' = out.value
              /\ verdicts' = [verdicts EXCEPT ![question_count] = out.value]
              /\ pc' = "record"
              /\ CountReply(resp)
              /\ UNCHANGED <<chain_vars, url, quiz_content, answer, clients,
                             step_ghosts, completed, failure, exit_path>>

(***************************************************************************)
(* solve_quiz_chain: after solve_single_quiz returned                      *)
(***************************************************************************)
\* Variant that keeps the page's own URL when the verdict has none.
NextUrlSticky(r, u) == IF r.url = None THEN u ELSE r.url

\* current_url = result.url
NextUrl(r, u) == r.url

\* Variant that records the verdict of the first attempt.
RecordFirstVerdict ==
    /\ pc = "record"
    /\ results' = Append(results, IF first_verdict # NoResult THEN first_verdict ELSE result)
    /\ current_url' = NextUrl(result, url)
    /\ completed' = completed + 1
    /\ pc' = "loop"
    /\ UNCHANGED <<outside, submit_ghosts, judge_ghosts, question_count, step_locals,
                   clients, counters, step_ghosts, verdicts, failure, exit_path>>

\* self.results.append(result); current_url = result.url
Record ==
    /\ pc = "record"
    /\ results' = Append(results, result)
    /\ current_url' = NextUrl(result, url)
    /\ completed' = completed + 1
    /\ pc' = "loop"
    /\ UNCHANGED <<outside, submit_ghosts, judge_ghosts, question_count, step_locals, clients, counters, step_ghosts,
                   verdicts, failure, exit_path>>

\* await self.submitter.close() returns.  The handlers' clients are not
\* touched: nothing calls PDFHandler.close or DataHandler.close.
Close ==
    /\ pc = "closing"
    /\ submitter_client' = "closed"
    /\ pc' = "done"
    /\ UNCHANGED <<outside, submit_ghosts, judge_ghosts, chain_vars, step_locals, data_client, pdf_client, counters,
                   step_ghosts, verdicts, completed, failure, exit_path>>

(***************************************************************************)
(* main.solve_quiz_task: asyncio.wait_for cancels the chain at its await.  *)
(* CancelledError is no Exception: neither submit_answer nor the loop's    *)
(* handler catches it, and the statement after the loop is not reached.    *)
(***************************************************************************)
Timeout ==
    /\ pc \in AwaitPoints
    /\ pc' = "timed_out"
    /\ exit_path' = "timeout"
    /\ IF pc = "closing"
       THEN submitter_client' \in {"open", "closed"}
       ELSE UNCHANGED submitter_client
    /\ UNCHANGED <<outside, submit_ghosts, judge_ghosts, chain_vars, step_locals, data_client, pdf_client, counters,
                   step_ghosts, verdicts, completed, failure>>

Next ==
    \/ StartStep
    \/ ExitLoop
    \/ FetchReturn
    \/ FetchRaise
    \/ Parse
    \/ Dispatch
    \/ DataVisionReturn
    \/ ScrapeFetchReturn
    \/ SolverReturn
    \/ SolverRaise
    \/ Submit1Return
    \/ Check
    \/ RetryVisionReturn
    \/ RetryVisionRaise
    \/ Submit2Return
    \/ Record
    \/ Close
    \/ Timeout

Spec == Init /\ [][Next]_vars

\* The chain while its deadline does not strike.
NextInTime ==
    \/ StartStep
    \/ ExitLoop
    \/ FetchReturn
    \/ FetchRaise
    \/ Parse
    \/ Dispatch
    \/ DataVisionReturn
    \/ ScrapeFetchReturn
    \/ SolverReturn
    \/ SolverRaise
    \/ Submit1Return
    \/ Check
    \/ RetryVisionReturn
    \/ RetryVisionRaise
    \/ Submit2Return
    \/ Record
    \/ Close

\* Every collaborator call returns or raises, and the coroutine is scheduled
\* whenever it can run.
LiveSpec == Init /\ [][NextInTime]_vars /\ WF_vars(NextInTime)

(***************************************************************************)
(* The trigger endpoint: solve_quiz and the background solve_quiz_task.    *)
(***************************************************************************)
QuizTaskRequests == [email : {"e"}, secret : Secrets, url : InitialUrls]

\* Variant without the comparison.
SecretMatchesAny(task) == TRUE

\* task.secret != settings.STORED_SECRET, negated
SecretMatches(task) == task.secret = STORED_SECRET

\* A request has arrived; no orchestrator exists yet.
InitApi ==
    /\ pc = "idle"
    /\ request \in QuizTaskRequests
    /\ caller = "waiting"
    /\ tasks = 0
    /\ current_url = None
    /\ question_count = 0
    /\ results = <<>>
    /\ url = None
    /\ quiz_content = NoContent
    /\ answer = None
    /\ result = NoResult
    /\ submitter_client = "open"
    /\ data_client = "open"
    /\ pdf_client = "open"
    /\ renders = 0
    /\ posts = 0
    /\ step_posts = 0
    /\ solver_calls = 0
    /\ vision_calls = 0
    /\ first_verdict = NoResult
    /\ vision_at_first = 0
    /\ verdicts = <<>>
    /\ completed = 0
    /\ response = NoResponse
    /\ always_next_url = TRUE
    /\ failure = NoFailure
    /\ exit_path = "running"
    /\ step_submits = 0
    /\ step_replies = 0
    /\ ConcIdle

\* raise HTTPException(status_code=403)
Reject ==
    /\ pc = "idle"
    /\ ~SecretMatches(request)
    /\ caller' = "403"
    /\ pc' = "rejected"
    /\ UNCHANGED <<fn_vars, conc_vars, request, tasks, submit_ghosts, judge_ghosts, chain_vars, step_locals,
                   clients, counters, step_ghosts, verdicts, completed, failure,
                   exit_path>>

\* asyncio.create_task(solve_quiz_task(...)); return QuizResponse("accepted").
\* The task first runs when the handler has returned: the orchestrator is
\* built and solve_quiz_chain(url) stands at its loop test.
Accept ==
    /\ pc = "idle"
    /\ SecretMatches(request)
    /\ tasks' = tasks + 1
    /\ caller' = "accepted"
    /\ current_url' = request.url
    /\ pc' = "loop"
    /\ UNCHANGED <<fn_vars, conc_vars, request, submit_ghosts, judge_ghosts, question_count, results,
                   step_locals, clients, counters, step_ghosts, verdicts, completed,
                   failure, exit_path>>

NextApi ==
    \/ Reject
    \/ Accept
    \/ Next

ApiSpec == InitApi /\ [][NextApi]_vars

(***************************************************************************)
(* Two background tasks at once.  Each runs solve_quiz_task: it builds its *)
(* own QuizOrchestrator and drives solve_quiz_chain; the page visits go    *)
(* through the class-level BrowserService.  The part of a step after its   *)
(* visits (solving and submitting) is one await ended by the verdict.      *)
(***************************************************************************)
single_vars ==
    <<pc, chain_vars, step_locals, clients, counters, step_ghosts, judge_ghosts,
      submit_ghosts, verdicts, completed, failure, exit_path, api_vars, fn_vars>>

InitConc ==
    /\ pc = "off"
    /\ current_url = None
    /\ question_count = 0
    /\ results = <<>>
    /\ url = None
    /\ quiz_content = NoContent
    /\ answer = None
    /\ result = NoResult
    /\ submitter_client = "open"
    /\ data_client = "open"
    /\ pdf_client = "open"
    /\ renders = 0
    /\ posts = 0
    /\ step_posts = 0
    /\ solver_calls = 0
    /\ vision_calls = 0
    /\ first_verdict = NoResult
    /\ vision_at_first = 0
    /\ verdicts = <<>>
    /\ completed = 0
    /\ response = NoResponse
    /\ always_next_url = TRUE
    /\ failure = NoFailure
    /\ exit_path = "running"
    /\ step_submits = 0
    /\ step_replies = 0
    /\ request = [email |-> "e", secret |-> STORED_SECRET, url |-> "u1"]
    /\ caller = "accepted"
    /\ tasks = 2
    /\ arg = NoCall
    /\ ret = NoCall
    /\ c_pc = [c \in Chains |-> "new"]
    /\ orchestrators = [c \in Chains |-> NoOrchestrator]
    /\ lists = [i \in ListIds |-> <<>>]
    /\ http_clients = [i \in ClientIds |-> "unmade"]
    /\ served = [c \in Chains |-> <<>>]
    /\ browser \in {None, "running"}
    /\ lock = 0
    /\ contexts = {}
    /\ visits = [c \in Chains |-> NoVisit]

\* Variant with one list object for all orchestrators (a class attribute).
ResultsListShared(c) == 1

\* self.results = [] : a list object of the orchestrator's own
ResultsList(c) == c

\* AnswerSubmitter(email, secret): self.client = httpx.AsyncClient(...)
SubmitterClient(c) == c

\* orchestrator = QuizOrchestrator(email, secret); solve_quiz_chain(url)
Construct(c) ==
    /\ c_pc[c] = "new"
    /\ orchestrators' = [orchestrators EXCEPT ![c] =
            [email |-> Email(c), secret |-> STORED_SECRET,
             results |-> ResultsList(c), client |-> SubmitterClient(c),
             current_url |-> "u1", question_count |-> 0]]
    /\ http_clients' = [http_clients EXCEPT ![SubmitterClient(c)] = "open"]
    /\ c_pc' = [c_pc EXCEPT ![c] = "loop"]
    /\ UNCHANGED <<single_vars, lists, served, browser_vars>>

\* The loop test of solve_quiz_chain and, when it holds, the step's call of
\* BrowserService.execute_and_get_content.
ConcLoop(c) ==
    /\ c_pc[c] = "loop"
    /\ LET o == orchestrators[c] IN
       IF LoopCond(o.current_url, o.question_count, MaxQuestions)
       THEN /\ orchestrators' = [orchestrators EXCEPT
                    ![c].question_count = o.question_count + 1]
            /\ visits' = [visits EXCEPT ![c] =
                    [kind |-> "render", context |-> 0, outcome |-> "none"]]
            /\ c_pc' = [c_pc EXCEPT ![c] = "get_page"]
       ELSE /\ c_pc' = [c_pc EXCEPT ![c] = "closing"]
            /\ UNCHANGED <<orchestrators, visits>>
    /\ UNCHANGED <<single_vars, lists, http_clients, served, browser, lock, contexts>>

\* get_page: if cls._browser is None: await cls.initialize()
GetPage(c) ==
    /\ c_pc[c] = "get_page"
    /\ c_pc' = [c_pc EXCEPT ![c] =
            IF browser = None THEN "init_wait" ELSE "new_context"]
    /\ UNCHANGED <<single_vars, orchestrators, lists, http_clients, served,
                   browser_vars>>

\* initialize: async with cls._lock (entered when the lock is free)
Acquire(c) ==
    /\ c_pc[c] = "init_wait"
    /\ lock = 0
    /\ lock' = c
    /\ c_pc' = [c_pc EXCEPT ![c] = "init_locked"]
    /\ UNCHANGED <<single_vars, orchestrators, lists, http_clients, served,
                   browser, contexts, visits>>

\* Variant that launches without looking at cls._browser.
InitLockedUnchecked(c) ==
    /\ c_pc[c] = "init_locked"
    /\ c_pc' = [c_pc EXCEPT ![c] = "launching"]
    /\ UNCHANGED lock
    /\ UNCHANGED <<single_vars, orchestrators, lists, http_clients, served,
                   browser, contexts, visits>>

\* initialize: if cls._browser is None, under the lock
InitLocked(c) ==
    /\ c_pc[c] = "init_locked"
    /\ IF browser = None
       THEN /\ c_pc' = [c_pc EXCEPT ![c] = "launching"]
            /\ UNCHANGED lock
       ELSE /\ c_pc' = [c_pc EXCEPT ![c] = "new_context"]
            /\ lock' = 0
    /\ UNCHANGED <<single_vars, orchestrators, lists, http_clients, served,
                   browser, contexts, visits>>

\* initialize: playwright started and chromium launched; the lock is left
LaunchReturn(c) ==
    /\ c_pc[c] = "launching"
    /\ browser' = "running"
    /\ lock' = 0
    /\ c_pc' = [c_pc EXCEPT ![c] = "new_context"]
    /\ UNCHANGED <<single_vars, orchestrators, lists, http_clients, served,
                   contexts, visits>>

\* The visit raised before or after its try block, or the step raised:
\* solve_quiz_chain logs and breaks.
VisitRaised(c) ==
    /\ c_pc' = [c_pc EXCEPT ![c] = "closing"]
    /\ visits' = [visits EXCEPT ![c].outcome = "raise"]

\* initialize: start or launch raises; the lock is left, get_page raises
LaunchRaise(c) ==
    /\ c_pc[c] = "launching"
    /\ lock' = 0
    /\ VisitRaised(c)
    /\ UNCHANGED <<single_vars, orchestrators, lists, http_clients, served,
                   browser, contexts>>

\* get_page: context = await cls._browser.new_context(...)
NewContextReturn(c) ==
    /\ c_pc[c] = "new_context"
    /\ \E i \in ContextIds \ contexts :
        /\ \A j \in ContextIds \ contexts : i <= j
        /\ contexts' = contexts \cup {i}
        /\ visits' = [visits EXCEPT ![c].context = i]
    /\ c_pc' = [c_pc EXCEPT ![c] = "new_page"]
    /\ UNCHANGED <<single_vars, orchestrators, lists, http_clients, served,
                   browser, lock>>

NewContextRaise(c) ==
    /\ c_pc[c] = "new_context"
    /\ VisitRaised(c)
    /\ UNCHANGED <<single_vars, orchestrators, lists, http_clients, served,
                   browser, lock, contexts>>

\* get_page: page = await context.new_page(); return page
NewPageReturn(c) ==
    /\ c_pc[c] = "new_page"
    /\ c_pc' = [c_pc EXCEPT ![c] = "in_try"]
    /\ UNCHANGED <<single_vars, orchestrators, lists, http_clients, served,
                   browser_vars>>

\* get_page: context.new_page() raises; the visit has not entered its try
NewPageRaise(c) ==
    /\ c_pc[c] = "new_page"
    /\ VisitRaised(c)
    /\ UNCHANGED <<single_vars, orchestrators, lists, http_clients, served,
                   browser, lock, contexts>>

\* The try block of the visit ends (return or exception): finally follows.
TryEnds(c) ==
    /\ c_pc[c] = "in_try"
    /\ \E o \in {"return", "raise"} :
        visits' = [visits EXCEPT ![c].outcome = o]
    /\ c_pc' = [c_pc EXCEPT ![c] = "context_close"]
    /\ UNCHANGED <<single_vars, orchestrators, lists, http_clients, served,
                   browser, lock, contexts>>

\* finally: await page.context.close(); then the visit's outcome takes
\* effect: the render is followed by the dispatch, the fetched path by the
\* rest of the step.
ContextClose(c) ==
    /\ c_pc[c] = "context_close"
    /\ contexts' = contexts \ {visits[c].context}
    /\ c_pc' = [c_pc EXCEPT ![c] =
            CASE visits[c].outcome = "raise" -> "closing"
              [] visits[c].outcome = "cancel" -> "timed_out"
              [] visits[c].kind = "render" -> "dispatch"
              [] OTHER -> "submit"]
    /\ UNCHANGED <<single_vars, orchestrators, lists, http_clients, served,
                   browser, lock, visits>>

\* _solve_by_type: a scraping task with a path visits it through
\* BrowserService.get_element_content; every other task needs no visit.
ConcDispatch(c) ==
    /\ c_pc[c] = "dispatch"
    /\ \/ /\ visits' = [visits EXCEPT ![c] =
                [kind |-> "fetchPath", context |-> 0, outcome |-> "none"]]
          /\ c_pc' = [c_pc EXCEPT ![c] = "get_page"]
       \/ /\ c_pc' = [c_pc EXCEPT ![c] = "submit"]
          /\ UNCHANGED visits
    /\ UNCHANGED <<single_vars, orchestrators, lists, http_clients, served,
                   browser, lock, contexts>>

\* list.append on a list object
ListAppend(i, v) == [lists EXCEPT ![i] = Append(lists[i], v)]

\* The step returns its verdict: self.results.append(result);
\* current_url = result.url
ConcRecord(c) ==
    /\ c_pc[c] = "submit"
    /\ \E v \in ConcVerdicts :
        /\ lists' = ListAppend(orchestrators[c].results, v)
        /\ served' = [served EXCEPT ![c] = Append(served[c], v)]
        /\ orchestrators' = [orchestrators EXCEPT
                ![c].current_url = NextUrl(v, orchestrators[c].current_url)]
    /\ c_pc' = [c_pc EXCEPT ![c] = "loop"]
    /\ UNCHANGED <<single_vars, http_clients, browser_vars>>

\* await self.submitter.close()
ConcClose(c) ==
    /\ c_pc[c] = "closing"
    /\ http_clients' = [http_clients EXCEPT ![orchestrators[c].client] = "closed"]
    /\ c_pc' = [c_pc EXCEPT ![c] = "done"]
    /\ UNCHANGED <<single_vars, orchestrators, lists, served, browser_vars>>

ConcAwaits ==
    {"init_wait", "launching", "new_context", "new_page", "in_try",
     "context_close", "submit", "closing"}

\* wait_for cancels the chain at its await.  Inside the try of a visit the
\* finally block runs; outside it nothing of the visit runs any more, and a
\* cancelled close may or may not have closed the context.
ConcTimeout(c) ==
    /\ c_pc[c] \in ConcAwaits
    /\ visits[c].outcome # "cancel"
    /\ IF c_pc[c] = "in_try"
       THEN /\ c_pc' = [c_pc EXCEPT ![c] = "context_close"]
            /\ UNCHANGED <<contexts, lock>>
       ELSE /\ c_pc' = [c_pc EXCEPT ![c] = "timed_out"]
            /\ lock' = IF c_pc[c] = "launching" THEN 0 ELSE lock
            /\ IF c_pc[c] = "context_close"
               THEN \/ contexts' = contexts \ {visits[c].context}
                    \/ UNCHANGED contexts
               ELSE UNCHANGED contexts
    /\ visits' = [visits EXCEPT ![c].outcome = "cancel"]
    /\ UNCHANGED <<single_vars, orchestrators, lists, http_clients, served, browser>>

NextConc ==
    \E c \in Chains :
        \/ Construct(c)
        \/ ConcLoop(c)
        \/ GetPage(c)
        \/ Acquire(c)
        \/ InitLocked(c)
        \/ LaunchReturn(c)
        \/ LaunchRaise(c)
        \/ NewContextReturn(c)
        \/ NewContextRaise(c)
        \/ NewPageReturn(c)
        \/ NewPageRaise(c)
        \/ TryEnds(c)
        \/ ContextClose(c)
        \/ ConcDispatch(c)
        \/ ConcRecord(c)
        \/ ConcClose(c)
        \/ ConcTimeout(c)

ConcSpec == InitConc /\ [][NextConc]_vars

(***************************************************************************)
(* Text.  A Python str is the sequence of its characters; an Optional[str] *)
(* is Absent or Some(s).                                                   *)
(***************************************************************************)
Absent == <<>>
Some(s) == <<s>>

UpperCase ==
    <<"A", "B", "C", "D", "E", "F", "G", "H", "I", "J", "K", "L", "M", "N",
      "O", "P", "Q", "R", "S", "T", "U", "V", "W", "X", "Y", "Z">>
LowerCase ==
    <<"a", "b", "c", "d", "e", "f", "g", "h", "i", "j", "k", "l", "m", "n",
      "o", "p", "q", "r", "s", "t", "u", "v", "w", "x", "y", "z">>

LowerChar(ch) ==
    IF \E i \in DOMAIN UpperCase : UpperCase[i] = ch
    THEN LowerCase[CHOOSE i \in DOMAIN UpperCase : UpperCase[i] = ch]
    ELSE ch

\* str.lower()
Lower(s) == [i \in 1..Len(s) |-> LowerChar(s[i])]

\* s[i-1:].startswith(t), for a position i counted from 1
HasAt(s, t, i) ==
    /\ i >= 1
    /\ i + Len(t) - 1 <= Len(s)
    /\ SubSeq(s, i, i + Len(t) - 1) = t

\* t in s
Contains(s, t) == \E i \in 1..(Len(s) + 1) : HasAt(s, t, i)

\* s.startswith(t), s.endswith(t)
StartsWith(s, t) == HasAt(s, t, 1)
EndsWith(s, t) == HasAt(s, t, Len(s) - Len(t) + 1)

\* sep.join(parts)
RECURSIVE Join(_, _)
Join(parts, sep) ==
    IF parts = <<>> THEN <<>>
    ELSE IF Len(parts) = 1 THEN parts[1]
    ELSE parts[1] \o sep \o Join(Tail(parts), sep)

\* The sequences over a set, up to a length
SeqsUpTo(set, n) == UNION {[1..k -> set] : k \in 0..n}

\* No chain runs while a pure function is studied.
ChainIdle ==
    /\ pc = "off"
    /\ current_url = None
    /\ question_count = 0
    /\ results = <<>>
    /\ url = None
    /\ quiz_content = NoContent
    /\ answer = None
    /\ result = NoResult
    /\ submitter_client = "open"
    /\ data_client = "open"
    /\ pdf_client = "open"
    /\ renders = 0
    /\ posts = 0
    /\ step_posts = 0
    /\ solver_calls = 0
    /\ vision_calls = 0
    /\ first_verdict = NoResult
    /\ vision_at_first = 0
    /\ verdicts = <<>>
    /\ completed = 0
    /\ response = NoResponse
    /\ always_next_url = TRUE
    /\ failure = NoFailure
    /\ exit_path = "running"
    /\ step_submits = 0
    /\ step_replies = 0
    /\ request = [email |-> "e", secret |-> STORED_SECRET, url |-> "u1"]
    /\ caller = "accepted"
    /\ tasks = 0
    /\ c_pc = [c \in Chains |-> "off"]
    /\ orchestrators = [c \in Chains |-> NoOrchestrator]
    /\ lists = [i \in ListIds |-> <<>>]
    /\ http_clients = [i \in ClientIds |-> "unmade"]
    /\ served = [c \in Chains |-> <<>>]
    /\ browser = "running"
    /\ lock = 0
    /\ contexts = {}
    /\ visits = [c \in Chains |-> NoVisit]

chain_idle_vars == <<pc, chain_vars, step_locals, clients, counters, step_ghosts, judge_ghosts,
      submit_ghosts, verdicts, completed, failure, exit_path, api_vars, conc_vars>>

(***************************************************************************)
(* QuizParser._determine_quiz_type                                         *)
(***************************************************************************)
\* Words a page text is made of: the category keywords, one of them in
\* capitals, and a word that is no keyword
Words ==
    { <<"a", "p", "i">>, <<"e", "n", "d", "p", "o", "i", "n", "t">>, <<"c", "h", "a", "r", "t">>, <<"p", "l", "o", "t">>, <<"g", "r", "a", "p", "h">>, <<"v", "i", "s", "u", "a", "l", "i", "z">>,
      <<"s", "u", "m">>, <<"a", "v", "e", "r", "a", "g", "e">>, <<"c", "o", "u", "n", "t">>, <<"f", "i", "l", "t", "e", "r">>, <<"s", "o", "r", "t">>, <<"a", "g", "g", "r", "e", "g", "a", "t", "e">>,
      <<"s", "c", "r", "a", "p", "e">>, <<"e", "x", "t", "r", "a", "c", "t">>, <<"w", "e", "b", "s", "i", "t", "e">>, <<"p", "a", "g", "e">>, <<"A", "P", "I">>, <<"h", "e", "l", "l", "o">> }

\* Words of a page text
MaxWords == 2

PageTexts == {Join(ws, <<" ">>) : ws \in SeqsUpTo(Words, MaxWords)}

\* What _extract_download_url may have found
DownloadUrls ==
    { Absent, Some(<<"/", "f", ".", "p", "d", "f">>), Some(<<"/", "f", ".", "c", "s", "v">>), Some(<<"/", "F", ".", "X", "L", "S", "X">>),
      Some(<<"/", "f", ".", "j", "s", "o", "n">>), Some(<<"/", "f", ".", "t", "x", "t">>), Some(<<"/", "f", ".", "z", "i", "p">>),
      Some(<<"/", "f", ".", "p", "d", "f", ".", "c", "s", "v">>) }

\* any(word in text for word in words)
AnyIn(words, text) == \E w \in words : Contains(text, w)

\* Variant that tests the tabular keywords before the api keywords.
determine_quiz_type_data_first(text, download_url) ==
    LET text_lower == Lower(text)
        has_url == download_url # Absent /\ download_url[1] # <<>>
        url_lower == IF has_url THEN Lower(download_url[1]) ELSE <<>>
    IN IF has_url /\ Contains(url_lower, <<".", "p", "d", "f">>) THEN "pdf"
       ELSE IF has_url /\ AnyIn({<<".", "c", "s", "v">>, <<".", "x", "l", "s", "x">>, <<".", "j", "s", "o", "n">>}, url_lower)
       THEN "data"
       ELSE IF AnyIn({<<"s", "u", "m">>, <<"a", "v", "e", "r", "a", "g", "e">>, <<"c", "o", "u", "n", "t">>, <<"f", "i", "l", "t", "e", "r">>, <<"s", "o", "r", "t">>,
                      <<"a", "g", "g", "r", "e", "g", "a", "t", "e">>}, text_lower)
       THEN "data"
       ELSE IF Contains(text_lower, <<"a", "p", "i">>) \/ Contains(text_lower, <<"e", "n", "d", "p", "o", "i", "n", "t">>)
       THEN "api"
       ELSE IF AnyIn({<<"c", "h", "a", "r", "t">>, <<"p", "l", "o", "t">>, <<"g", "r", "a", "p", "h">>, <<"v", "i", "s", "u", "a", "l", "i", "z">>}, text_lower)
       THEN "visualization"
       ELSE IF AnyIn({<<"s", "c", "r", "a", "p", "e">>, <<"e", "x", "t", "r", "a", "c", "t">>, <<"w", "e", "b", "s", "i", "t", "e">>, <<"p", "a", "g", "e">>}, text_lower)
       THEN "scraping"
       ELSE "general"

determine_quiz_type(text, download_url) ==
    LET text_lower == Lower(text)
        has_url == download_url # Absent /\ download_url[1] # <<>>
        url_lower == IF has_url THEN Lower(download_url[1]) ELSE <<>>
    IN IF has_url /\ Contains(url_lower, <<".", "p", "d", "f">>) THEN "pdf"
       ELSE IF has_url /\ AnyIn({<<".", "c", "s", "v">>, <<".", "x", "l", "s", "x">>, <<".", "j", "s", "o", "n">>}, url_lower)
       THEN "data"
       ELSE IF Contains(text_lower, <<"a", "p", "i">>) \/ Contains(text_lower, <<"e", "n", "d", "p", "o", "i", "n", "t">>)
       THEN "api"
       ELSE IF AnyIn({<<"c", "h", "a", "r", "t">>, <<"p", "l", "o", "t">>, <<"g", "r", "a", "p", "h">>, <<"v", "i", "s", "u", "a", "l", "i", "z">>}, text_lower)
       THEN "visualization"
       ELSE IF AnyIn({<<"s", "u", "m">>, <<"a", "v", "e", "r", "a", "g", "e">>, <<"c", "o", "u", "n", "t">>, <<"f", "i", "l", "t", "e", "r">>, <<"s", "o", "r", "t">>,
                      <<"a", "g", "g", "r", "e", "g", "a", "t", "e">>}, text_lower)
       THEN "data"
       ELSE IF AnyIn({<<"s", "c", "r", "a", "p", "e">>, <<"e", "x", "t", "r", "a", "c", "t">>, <<"w", "e", "b", "s", "i", "t", "e">>, <<"p", "a", "g", "e">>}, text_lower)
       THEN "scraping"
       ELSE "general"

InitClassify ==
    /\ ChainIdle
    /\ arg \in [text : PageTexts, download_url : DownloadUrls]
    /\ ret = Pending

Classify ==
    /\ ret = Pending
    /\ ret' = determine_quiz_type(arg.text, arg.download_url)
    /\ UNCHANGED <<arg, chain_idle_vars>>

ClassifySpec == InitClassify /\ [][Classify]_vars

(***************************************************************************)
(* Regular-expression matching, as the patterns of quiz_parser.py need it  *)
(***************************************************************************)
\* \s
Spaces == {" ", "\n", "\t"}

\* [\s<>"'{}\[\]] : what ends a URL in the text patterns
UrlStop == Spaces \cup {"<", ">", "\"", "'", "{", "}", "[", "]"}

Min(set) == CHOOSE x \in set : \A y \in set : x <= y

\* The last position of the longest run of characters outside stop that
\* starts at i (i - 1 when the run is empty)
RECURSIVE RunEnd(_, _, _)
RunEnd(s, i, stop) ==
    IF i > Len(s) \/ s[i] \in stop THEN i - 1 ELSE RunEnd(s, i + 1, stop)

\* The first position from j on that holds no white space
RECURSIVE SkipSpaces(_, _)
SkipSpaces(s, j) ==
    IF j <= Len(s) /\ s[j] \in Spaces THEN SkipSpaces(s, j + 1) ELSE j

\* The length of https?:// at position i, or 0
SchemeLen(s, i) ==
    IF HasAt(s, <<"h", "t", "t", "p", "s", ":", "/", "/">>, i) THEN 8
    ELSE IF HasAt(s, <<"h", "t", "t", "p", ":", "/", "/">>, i) THEN 7
    ELSE 0

\* re.sub(r'[...]+$', '', s) and str.rstrip(chars)
RECURSIVE RStrip(_, _)
RStrip(s, chars) ==
    IF s # <<>> /\ s[Len(s)] \in chars
    THEN RStrip(SubSeq(s, 1, Len(s) - 1), chars)
    ELSE s

\* re.sub(r'\n(?=\/)', '', text)
RECURSIVE JoinBeforeSlash(_, _)
JoinBeforeSlash(s, i) ==
    IF i > Len(s) THEN <<>>
    ELSE IF s[i] = "\n" /\ i < Len(s) /\ s[i + 1] = "/"
    THEN JoinBeforeSlash(s, i + 1)
    ELSE <<s[i]>> \o JoinBeforeSlash(s, i + 1)

\* (https?://[^\s]+)\n([^\s]+) matches at i
UrlThenLineAt(s, i) ==
    LET k == SchemeLen(s, i)
        e == RunEnd(s, i + k, Spaces)
    IN /\ k > 0
       /\ e >= i + k
       /\ e + 2 <= Len(s)
       /\ s[e + 1] = "\n"
       /\ s[e + 2] \notin Spaces

\* re.sub(r'(https?://[^\s]+)\n([^\s]+)', r'\1\2', text), from a position on
RECURSIVE JoinAfterUrl(_, _)
JoinAfterUrl(s, from) ==
    LET found == {i \in from..Len(s) : UrlThenLineAt(s, i)}
    IN IF found = {} THEN s
       ELSE LET i == Min(found)
                e == RunEnd(s, i + SchemeLen(s, i), Spaces)
                e2 == RunEnd(s, e + 2, Spaces)
            IN JoinAfterUrl(SubSeq(s, 1, e) \o SubSeq(s, e + 2, Len(s)), e2)

\* _extract_submission_url: normalized_text
normalize_text(text) == JoinAfterUrl(JoinBeforeSlash(text, 1), 1)

\* https?://[^X]+/<word>(?:[^X]*)? , ignoring case: the match at i, or <<>>
UrlWithWordAt(s, l, i, word) ==
    LET k == SchemeLen(l, i)
        e == RunEnd(s, i + k, UrlStop)
    IN IF k > 0 /\ \E j \in (i + k + 1)..(e - Len(word) + 1) : HasAt(l, word, j)
       THEN SubSeq(s, i, e)
       ELSE <<>>

\* re.search of that pattern: the leftmost match, or <<>>
UrlWithWord(s, word) ==
    LET l == Lower(s)
        found == {i \in 1..Len(s) : UrlWithWordAt(s, l, i, word) # <<>>}
    IN IF found = {} THEN <<>> ELSE UrlWithWordAt(s, l, Min(found), word)

\* \s+(https?://[^X]+) from position j on, ignoring case: group 1, or <<>>
SpacesThenUrl(s, l, j) ==
    LET a == SkipSpaces(s, j)
        k == SchemeLen(l, a)
        e == RunEnd(s, a + k, UrlStop)
    IN IF a > j /\ k > 0 /\ e >= a + k THEN SubSeq(s, a, e) ELSE <<>>

\* phrase\s+(https?://[^X]+), ignoring case: group 1 of the leftmost match
UrlAfterPhrase(s, phrase) ==
    LET l == Lower(s)
        found == {i \in 1..Len(s) :
                    /\ HasAt(l, phrase, i)
                    /\ SpacesThenUrl(s, l, i + Len(phrase)) # <<>>}
    IN IF found = {} THEN <<>>
       ELSE SpacesThenUrl(s, l, Min(found) + Len(phrase))

\* POST.*?to\s+(https?://[^X]+), ignoring case: the positions of a "to"
\* that can end the match begun by the POST at i
PostToAt(s, l, i) ==
    {t \in (i + 4)..Len(s) :
        /\ HasAt(l, <<"t", "o">>, t)
        /\ \A m \in (i + 4)..(t - 1) : s[m] # "\n"
        /\ SpacesThenUrl(s, l, t + 2) # <<>>}

UrlAfterPostTo(s) ==
    LET l == Lower(s)
        found == {i \in 1..Len(s) : HasAt(l, <<"p", "o", "s", "t">>, i) /\ PostToAt(s, l, i) # {}}
    IN IF found = {} THEN <<>>
       ELSE SpacesThenUrl(s, l, Min(PostToAt(s, l, Min(found))) + 2)

\* re.findall(r'https?://[^\s<>"\']+', s): the matches from a position on
RECURSIVE FindAllUrls(_, _)
FindAllUrls(s, from) ==
    LET stop == Spaces \cup {"<", ">", "\"", "'"}
        found == {i \in from..Len(s) :
                    /\ SchemeLen(s, i) > 0
                    /\ RunEnd(s, i + SchemeLen(s, i), stop) >= i + SchemeLen(s, i)}
    IN IF found = {} THEN <<>>
       ELSE LET i == Min(found)
                e == RunEnd(s, i + SchemeLen(s, i), stop)
            IN <<SubSeq(s, i, e)>> \o FindAllUrls(s, e + 1)

(***************************************************************************)
(* QuizParser._extract_submission_url(text, html).  Of the html only the   *)
(* href values of its anchors matter, in document order.                   *)
(***************************************************************************)
\* for link in soup.find_all("a", href=True): if "submit" in href.lower()
AnchorRule(hrefs) ==
    LET found == {i \in DOMAIN hrefs : Contains(Lower(hrefs[i]), <<"s", "u", "b", "m", "i", "t">>)}
    IN IF found = {} THEN <<>> ELSE hrefs[Min(found)]

\* for pattern in patterns: re.search(pattern, normalized_text, re.IGNORECASE)
PatternRule(text) ==
    LET n == normalize_text(text)
        m1 == UrlWithWord(n, <<"/", "s", "u", "b", "m", "i", "t">>)
        m2 == UrlWithWord(n, <<"/", "a", "n", "s", "w", "e", "r">>)
        m3 == UrlAfterPhrase(n, <<"p", "o", "s", "t", " ", "y", "o", "u", "r", " ", "a", "n", "s", "w", "e", "r", " ", "t", "o">>)
        m4 == UrlAfterPostTo(n)
        m == IF m1 # <<>> THEN m1
             ELSE IF m2 # <<>> THEN m2
             ELSE IF m3 # <<>> THEN m3
             ELSE m4
    IN RStrip(m, {"{", "}", "[", "]", "<", ">", "\"", "'", ".", ",", ";", ":"}
                  \cup Spaces)

\* base domain + /submit
SynthesizedRule(text) ==
    LET stop == Spaces \cup {"<", ">", "\"", "'", "/"}
        found == {i \in 1..Len(text) :
                    /\ SchemeLen(text, i) > 0
                    /\ RunEnd(text, i + SchemeLen(text, i), stop)
                          >= i + SchemeLen(text, i)}
    IN IF found # {} /\ Contains(Lower(text), <<"/", "s", "u", "b", "m", "i", "t">>)
       THEN LET i == Min(found)
            IN SubSeq(text, i, RunEnd(text, i + SchemeLen(text, i), stop))
               \o <<"/", "s", "u", "b", "m", "i", "t">>
       ELSE <<>>

\* Fallback: any URL with submit or answer in it
FallbackRule(text) ==
    LET urls == FindAllUrls(normalize_text(text), 1)
        found == {i \in DOMAIN urls :
                    \/ Contains(Lower(urls[i]), <<"s", "u", "b", "m", "i", "t">>)
                    \/ Contains(Lower(urls[i]), <<"a", "n", "s", "w", "e", "r">>)}
    IN IF found = {} THEN <<>>
       ELSE RStrip(urls[Min(found)], {".", ",", ";", ":", "\"", "'"})

\* Variant that synthesizes the endpoint before it tries the text patterns.
extract_submission_url_synth_first(text, hrefs) ==
    IF AnchorRule(hrefs) # <<>> THEN AnchorRule(hrefs)
    ELSE IF SynthesizedRule(text) # <<>> THEN SynthesizedRule(text)
    ELSE IF PatternRule(text) # <<>> THEN PatternRule(text)
    ELSE FallbackRule(text)

extract_submission_url(text, hrefs) ==
    IF AnchorRule(hrefs) # <<>> THEN AnchorRule(hrefs)
    ELSE IF PatternRule(text) # <<>> THEN PatternRule(text)
    ELSE IF SynthesizedRule(text) # <<>> THEN SynthesizedRule(text)
    ELSE FallbackRule(text)

(***************************************************************************)
(* QuizParser.parse_quiz_page.  A rendered page is the sequence of its     *)
(* anchors and text blocks in document order, each inside or outside the   *)
(* element with id "result", if the page has one.                          *)
(***************************************************************************)
Anchor(href, text) == [tag |-> "a", href |-> href, text |-> text]
Block(text) == [tag |-> "p", href |-> <<>>, text |-> text]

\* Anchors and text blocks of the pages studied for the submission endpoint
SubmitElements ==
    { Anchor(<<"/", "s", "u", "b", "m", "i", "t">>, <<"g", "o">>),
      Anchor(<<"h", "t", "t", "p", ":", "/", "/", "h", "/", "S", "U", "B", "M", "I", "T">>, <<"g", "o">>),
      Anchor(<<"/", "f", ".", "c", "s", "v">>, <<"f", "i", "l", "e">>),
      Block(<<"P", "o", "s", "t", " ", "y", "o", "u", "r", " ", "a", "n", "s", "w", "e", "r", " ", "t", "o", " ", "h", "t", "t", "p", ":", "/", "/", "x", "/", "y">>),
      Block(<<"P", "o", "s", "t", " ", "y", "o", "u", "r", " ", "a", "n", "s", "w", "e", "r", " ", "t", "o", " ", "h", "t", "t", "p", ":", "/", "/", "x", "/", "y", ".">>),
      Block(<<"G", "o", "o", "d", " ", "l", "u", "c", "k">>),
      Block(<<"h", "t", "t", "p", ":", "/", "/", "h", "/", "s", "u", "b", "m", "i", "t">>),
      Block(<<"P", "O", "S", "T", " ", "i", "t", " ", "t", "o", " ", "h", "t", "t", "p", ":", "/", "/", "x", "/", "z">>),
      Block(<<"u", "s", "e", " ", "/", "s", "u", "b", "m", "i", "t">>),
      Block(<<"s", "e", "e", " ", "h", "t", "t", "p", ":", "/", "/", "h", "/", "q">>),
      Block(<<"h", "t", "t", "p", ":", "/", "/", "a", "n", "s", "w", "e", "r", ".", "e", "x", "/", "q">>),
      Block(<<"/", "n", "e", "x", "t">>),
      Block(<<"h", "t", "t", "p", ":", "/", "/", "x", "/", "q", "/">>) }

\* Elements of a page
MaxElements == 2

\* The pages over a set of elements: without a result region, or with one
\* that holds some of the elements
Pages(elements) ==
    [has_result : {FALSE}, elements : SeqsUpTo(elements \X {FALSE}, MaxElements)]
    \cup
    [has_result : {TRUE}, elements : SeqsUpTo(elements \X BOOLEAN, MaxElements)]

\* result_div = soup.find(id="result"): the elements the parser looks at
Region(page) ==
    LET all == [i \in DOMAIN page.elements |-> page.elements[i][1]]
        inside(i) == page.elements[i][2]
        RECURSIVE pick(_)
        pick(i) ==
            IF i > Len(all) THEN <<>>
            ELSE IF inside(i) THEN <<all[i]>> \o pick(i + 1)
            ELSE pick(i + 1)
    IN IF page.has_result THEN pick(1) ELSE all

\* get_text(separator="\n", strip=True)
ContentText(region) == Join([i \in DOMAIN region |-> region[i].text], <<"\n">>)

\* The href values of soup.find_all("a", href=True), in document order
RECURSIVE Hrefs(_)
Hrefs(region) ==
    IF region = <<>> THEN <<>>
    ELSE IF region[1].tag = "a" THEN <<region[1].href>> \o Hrefs(Tail(region))
    ELSE Hrefs(Tail(region))

InitSubmitUrl ==
    /\ ChainIdle
    /\ arg \in Pages(SubmitElements)
    /\ ret = [done |-> FALSE]

\* parse_quiz_page: submission_url
ParseSubmissionUrl ==
    /\ ret = [done |-> FALSE]
    /\ ret' = [done |-> TRUE,
               submission_url |->
                    extract_submission_url(ContentText(Region(arg)),
                                           Hrefs(Region(arg)))]
    /\ UNCHANGED <<arg, chain_idle_vars>>

SubmitUrlSpec == InitSubmitUrl /\ [][ParseSubmissionUrl]_vars

(***************************************************************************)
(* QuizParser._extract_download_url(html)                                  *)
(***************************************************************************)
\* file_extensions, in the order of the list
FileExtensions ==
    << <<".", "p", "d", "f">>, <<".", "c", "s", "v">>, <<".", "j", "s", "o", "n">>, <<".", "x", "l", "s", "x">>, <<".", "t", "x", "t">>, <<".", "z", "i", "p">> >>

\* soup.get_text(): the text nodes as the source has them, one element on
\* each line of the source
PlainText(region) == Join([i \in DOMAIN region |-> region[i].text], <<"\n">>)

\* (https?://[^\s<>"']+{ext}[^\s<>"']*), ignoring case, matches at i: the
\* match, or <<>>.  In the pattern the dot of the extension stands for any
\* character but a line break; the greedy run before it gives way from
\* its end.
UrlWithExtensionAt(s, l, i, ext) ==
    LET stop == Spaces \cup {"<", ">", "\"", "'"}
        k == SchemeLen(l, i)
        letters == Tail(ext)
        e == RunEnd(s, i + k, stop)
        dots == {j \in (i + k + 1)..(e + 1) :
                    /\ j <= Len(s)
                    /\ s[j] # "\n"
                    /\ HasAt(l, letters, j + 1)}
    IN IF k > 0 /\ dots # {}
       THEN LET j == CHOOSE x \in dots : \A y \in dots : y <= x
            IN SubSeq(s, i, RunEnd(s, j + 1 + Len(letters), stop))
       ELSE <<>>

UrlWithExtension(s, ext) ==
    LET l == Lower(s)
        found == {i \in 1..Len(s) : UrlWithExtensionAt(s, l, i, ext) # <<>>}
    IN IF found = {} THEN <<>> ELSE UrlWithExtensionAt(s, l, Min(found), ext)

extract_download_url(region) ==
    LET hrefs == Hrefs(region)
        text == PlainText(region)
        anchors == {i \in DOMAIN hrefs :
                      \E x \in DOMAIN FileExtensions :
                          Contains(Lower(hrefs[i]), FileExtensions[x])}
        exts == {x \in DOMAIN FileExtensions :
                      UrlWithExtension(text, FileExtensions[x]) # <<>>}
    IN IF anchors # {} THEN Some(hrefs[Min(anchors)])
       ELSE IF exts # {}
       THEN Some(RStrip(UrlWithExtension(text, FileExtensions[Min(exts)]),
                        {".", ",", ";", ":", "\"", "'"}))
       ELSE Absent

\* Anchors and text blocks of the pages studied for the download endpoint
DownloadElements ==
    { Anchor(<<"/", "f", ".", "p", "d", "f">>, <<"f", "i", "l", "e">>),
      Anchor(<<"/", "D", ".", "C", "S", "V">>, <<"d", "a", "t", "a">>),
      Anchor(<<"/", "d", ".", "x", "l", "s">>, <<"s", "h", "e", "e", "t">>),
      Anchor(<<"/", "a", "b", "o", "u", "t">>, <<"a", "b", "o", "u", "t">>),
      Block(<<"s", "e", "e", " ", "h", "t", "t", "p", ":", "/", "/", "h", "/", "f", ".", "c", "s", "v">>),
      Block(<<"g", "e", "t", " ", "h", "t", "t", "p", ":", "/", "/", "h", "/", "f", ".", "p", "d", "f", ".">>),
      Block(<<"h", "t", "t", "p", ":", "/", "/", "h", "/", "d", ".", "x", "l", "s">>),
      Block(<<"r", "e", "a", "d", " ", "f", ".", "t", "x", "t">>),
      Block(<<"G", "o", "o", "d", " ", "l", "u", "c", "k">>) }

InitDownload ==
    /\ ChainIdle
    /\ arg \in Pages(DownloadElements)
    /\ ret = [done |-> FALSE]

\* parse_quiz_page: download_url
ParseDownloadUrl ==
    /\ ret = [done |-> FALSE]
    /\ ret' = [done |-> TRUE, download_url |-> extract_download_url(Region(arg))]
    /\ UNCHANGED <<arg, chain_idle_vars>>

DownloadSpec == InitDownload /\ [][ParseDownloadUrl]_vars

(***************************************************************************)
(* QuizParser.make_absolute_url(url, base_url), with urlparse and urljoin  *)
(* of urllib.parse as the call at the end of the method uses them          *)
(***************************************************************************)
Digits == {"0", "1", "2", "3", "4", "5", "6", "7", "8", "9"}

SchemeChars ==
    {LowerCase[i] : i \in DOMAIN LowerCase} \cup {UpperCase[i] : i \in DOMAIN UpperCase}
        \cup Digits \cup {"+", "-", "."}

\* The schemes urljoin resolves relative references for, and those that
\* carry a host
UsesRelative ==
    { <<>>, <<"f", "t", "p">>, <<"h", "t", "t", "p">>, <<"g", "o", "p", "h", "e", "r">>, <<"n", "n", "t", "p">>, <<"i", "m", "a", "p">>, <<"w", "a", "i", "s">>,
      <<"f", "i", "l", "e">>, <<"h", "t", "t", "p", "s">>, <<"s", "h", "t", "t", "p">>, <<"m", "m", "s">>, <<"p", "r", "o", "s", "p", "e", "r", "o">>, <<"r", "t", "s", "p">>,
      <<"r", "t", "s", "p", "u">>, <<"s", "f", "t", "p">>, <<"s", "v", "n">>, <<"s", "v", "n", "+", "s", "s", "h">>, <<"w", "s">>, <<"w", "s", "s">> }
UsesNetloc ==
    UsesRelative \cup { <<"t", "e", "l", "n", "e", "t">>, <<"s", "n", "e", "w", "s">>, <<"r", "s", "y", "n", "c">>, <<"n", "f", "s">>, <<"g", "i", "t">>,
                        <<"g", "i", "t", "+", "s", "s", "h">> }

\* str.find: the first position of a character of the set from i on, or
\* Len(s) + 1
RECURSIVE FindFirst(_, _, _)
FindFirst(s, i, chars) ==
    IF i > Len(s) \/ s[i] \in chars THEN i ELSE FindFirst(s, i + 1, chars)

\* str.split(sep) for a single character
RECURSIVE Split(_, _)
Split(s, sep) ==
    LET i == FindFirst(s, 1, {sep})
    IN IF i > Len(s) THEN <<s>>
       ELSE <<SubSeq(s, 1, i - 1)>> \o Split(SubSeq(s, i + 1, Len(s)), sep)

\* urlparse(link, scheme): the scheme is the text before the first colon when
\* it starts with a letter and holds only scheme characters, in lower case;
\* the host follows "//" and ends before the first of / ? #; then the
\* fragment, the query and the path
urlparse(link, default_scheme) ==
    LET colon == FindFirst(link, 1, {":"})
        has_scheme ==
            /\ colon <= Len(link)
            /\ colon > 1
            /\ link[1] \in SchemeChars \ (Digits \cup {"+", "-", "."})
            /\ \A i \in 1..(colon - 1) : link[i] \in SchemeChars
        scheme == IF has_scheme THEN Lower(SubSeq(link, 1, colon - 1))
                  ELSE default_scheme
        rest == IF has_scheme THEN SubSeq(link, colon + 1, Len(link)) ELSE link
        has_netloc == StartsWith(rest, <<"/", "/">>)
        delim == FindFirst(rest, 3, {"/", "?", "#"})
        netloc == IF has_netloc THEN SubSeq(rest, 3, delim - 1) ELSE <<>>
        after == IF has_netloc THEN SubSeq(rest, delim, Len(rest)) ELSE rest
        hash == FindFirst(after, 1, {"#"})
        fragment == SubSeq(after, hash + 1, Len(after))
        before == SubSeq(after, 1, hash - 1)
        mark == FindFirst(before, 1, {"?"})
    IN [scheme |-> scheme, netloc |-> netloc,
        path |-> SubSeq(before, 1, mark - 1),
        query |-> SubSeq(before, mark + 1, Len(before)),
        fragment |-> fragment]

\* urlunparse
urlunparse(p) ==
    LET rooted == IF p.path # <<>> /\ p.path[1] # "/" THEN <<"/">> \o p.path
                  ELSE p.path
        hosted == IF p.netloc # <<>>
                     \/ (p.scheme # <<>> /\ p.scheme \in UsesNetloc
                           /\ ~StartsWith(p.path, <<"/", "/">>))
                  THEN <<"/", "/">> \o p.netloc \o rooted
                  ELSE p.path
    IN (IF p.scheme # <<>> THEN p.scheme \o <<":">> ELSE <<>>) \o hosted
         \o (IF p.query # <<>> THEN <<"?">> \o p.query ELSE <<>>)
         \o (IF p.fragment # <<>> THEN <<"#">> \o p.fragment ELSE <<>>)

\* The loop of urljoin over the segments: ".." drops the last segment kept,
\* "." is skipped
RECURSIVE Resolve(_, _)
Resolve(segments, kept) ==
    IF segments = <<>> THEN kept
    ELSE IF Head(segments) = <<".", ".">>
    THEN Resolve(Tail(segments),
                 IF kept = <<>> THEN kept ELSE SubSeq(kept, 1, Len(kept) - 1))
    ELSE IF Head(segments) = <<".">> THEN Resolve(Tail(segments), kept)
    ELSE Resolve(Tail(segments), kept \o <<Head(segments)>>)

\* segments[1:-1] = filter(None, segments[1:-1])
DropEmptyInside(segments) ==
    LET n == Len(segments)
        inside == SubSeq(segments, 2, n - 1)
        IN IF n < 2 THEN segments
           ELSE <<segments[1]>> \o SelectSeq(inside, LAMBDA seg : seg # <<>>)
                   \o <<segments[n]>>

urljoin(base, link) ==
    LET b == urlparse(base, <<>>)
        u == urlparse(link, b.scheme)
        base_parts == LET parts == Split(b.path, "/")
                      IN IF parts[Len(parts)] # <<>>
                         THEN SubSeq(parts, 1, Len(parts) - 1) ELSE parts
        segments == IF StartsWith(u.path, <<"/">>) THEN Split(u.path, "/")
                    ELSE DropEmptyInside(base_parts \o Split(u.path, "/"))
        resolved == Resolve(segments, <<>>)
                       \o (IF segments[Len(segments)] \in {<<".">>, <<".", ".">>}
                           THEN << <<>> >> ELSE <<>>)
        joined == Join(resolved, <<"/">>)
    IN IF base = <<>> THEN link
       ELSE IF link = <<>> THEN base
       ELSE IF u.scheme # b.scheme \/ u.scheme \notin UsesRelative THEN link
       ELSE IF u.scheme \in UsesNetloc /\ u.netloc # <<>> THEN urlunparse(u)
       ELSE IF u.path = <<>>
       THEN urlunparse([u EXCEPT !.netloc = b.netloc, !.path = b.path,
                                 !.query = IF u.query = <<>> THEN b.query
                                           ELSE u.query])
       ELSE urlunparse([u EXCEPT !.netloc = b.netloc,
                                 !.path = IF joined = <<>> THEN <<"/">>
                                          ELSE joined])

make_absolute_url(link, base_url) ==
    IF StartsWith(link, <<"h", "t", "t", "p">>) THEN link
    ELSE LET parsed == urlparse(base_url, <<>>)
         IN urljoin(parsed.scheme \o <<":", "/", "/">> \o parsed.netloc, link)

\* The URLs a page gives for its endpoints, and the addresses of pages
EndpointUrls ==
    { <<"/", "s", "u", "b", "m", "i", "t">>, <<"s", "u", "b", "m", "i", "t">>, <<"/", "s", "?", "q", "=", "1", "#", "f">>, <<"a", "/", "b", "/">>, <<".", ".", "/", "x">>, <<".", "/", "x">>,
      <<"a", "/", ".", ".", "/", "b">>, <<".", ".">>, <<"/">>, <<"?", "a", "=", "1">>, <<"#", "f">>, <<>>, <<"/", "/", "o", ".", "c", "o", "m", "/", "s">>,
      <<"h", "t", "t", "p", "s", ":", "/", "/", "o", "/", "s">>, <<"h", "t", "t", "p", ":", "/", "/", "o", "/", "s", "?", "q", "=", "1">>, <<"f", "t", "p", ":", "/", "/", "a", "/", "b">>, <<"m", "a", "i", "l", "t", "o", ":", "x">>,
      <<"H", "T", "T", "P", ":", "/", "/", "H", "/", "x">>, <<"h", "t", "t", "p", "d", "o", "c", "s", "/", "s", "u", "b", "m", "i", "t">>, <<"h", "t", "t", "p">>, <<"1", ":", "s">>, <<"/", "a", "/", ".", "/", "b", "/">> }
PageUrls ==
    { <<"h", "t", "t", "p", "s", ":", "/", "/", "h", "o", "s", "t", ".", "e", "x", "a", "m", "p", "l", "e", "/", "q", "u", "i", "z", "/", "1">>, <<"h", "t", "t", "p", ":", "/", "/", "h", ":", "8", "0", "/", "q", "?", "x", "=", "1">>, <<"h", "t", "t", "p", "s", ":", "/", "/", "h">>,
      <<"h", "t", "t", "p", ":", "/", "/", "u", "s", "e", "r", "@", "h", "/", "a", "/", "b", "#", "t", "o", "p">> }

\* Calls in a row on one URL
MaxCalls == 2

InitAbsUrl ==
    /\ ChainIdle
    /\ arg \in [url : EndpointUrls, base_url : PageUrls]
    /\ ret = [calls |-> 0, url |-> arg.url]

\* One more call of make_absolute_url, on the outcome of the calls before
MakeAbsolute ==
    /\ ret.calls < MaxCalls
    /\ ret' = [calls |-> ret.calls + 1,
               url |-> make_absolute_url(ret.url, arg.base_url)]
    /\ UNCHANGED <<arg, chain_idle_vars>>

AbsUrlSpec == InitAbsUrl /\ [][MakeAbsolute]_vars

(***************************************************************************)
(* LLMService._parse_answer(answer_text), with json.loads, int and float   *)
(* as the method uses them.  A value is a record that names its Python     *)
(* type.                                                                   *)
(***************************************************************************)
NoneValue == [type |-> "NoneType"]
BoolValue(b) == [type |-> "bool", bool |-> b]
IntValue(n) == [type |-> "int", int |-> n]
StrValue(s) == [type |-> "str", str |-> s]
ListValue(items) == [type |-> "list", list |-> items]
DictValue(pairs) == [type |-> "dict", dict |-> pairs]

\* A float is mantissa * 10^exponent, the mantissa without trailing zeros
RECURSIVE FloatValue(_, _)
FloatValue(mantissa, exponent) ==
    IF mantissa = 0 THEN [type |-> "float", mantissa |-> 0, exponent |-> 0]
    ELSE IF mantissa % 10 = 0 THEN FloatValue(mantissa \div 10, exponent + 1)
    ELSE [type |-> "float", mantissa |-> mantissa, exponent |-> exponent]

\* The nesting at which json.loads raises RecursionError: the recursion
\* limit of the interpreter, which is 1000 unless changed and is scaled down
\* here as max_questions is
RecursionLimit == 2

\* The character U+0060, which no string of this language can hold
Backtick == "backtick"

Fence == <<Backtick, Backtick, Backtick>>

\* str.strip(), str.lstrip(chars)
RECURSIVE LStrip(_, _)
LStrip(s, chars) ==
    IF s # <<>> /\ s[1] \in chars THEN LStrip(Tail(s), chars) ELSE s
Strip(s) == LStrip(RStrip(s, Spaces), Spaces)

\* str.isdigit()
IsDigit(s) == s # <<>> /\ \A i \in DOMAIN s : s[i] \in Digits

\* The number a run of digits denotes
RECURSIVE DigitsValue(_)
DigitsValue(s) ==
    IF s = <<>> THEN 0
    ELSE 10 * DigitsValue(SubSeq(s, 1, Len(s) - 1))
           + (CHOOSE d \in 0..9 : ToString(d) = s[Len(s)])

\* The last position of the run of digits that starts at i (i - 1 when
\* there is none)
RECURSIVE DigitsEnd(_, _)
DigitsEnd(s, i) ==
    IF i <= Len(s) /\ s[i] \in Digits THEN DigitsEnd(s, i + 1) ELSE i - 1

\* int(s) for minus signs followed by digits: ValueError on a repeated sign
int(s) ==
    LET digits == LStrip(s, {"-"})
        signs == Len(s) - Len(digits)
    IN IF signs > 1 THEN [err |-> "ValueError"]
       ELSE [err |-> "none",
             value |-> IntValue(IF signs = 1 THEN 0 - DigitsValue(digits)
                                ELSE DigitsValue(digits))]

\* re.match(r"^-?\d+\.?\d*$", s): the ends of its parts, or no match
DecimalParts(s) ==
    LET a == IF s # <<>> /\ s[1] = "-" THEN 2 ELSE 1
        b == DigitsEnd(s, a)
        c == IF b < Len(s) /\ s[b + 1] = "." THEN b + 1 ELSE b
        d == DigitsEnd(s, c + 1)
    IN [match |-> b >= a /\ d = Len(s), negative |-> a = 2,
        whole |-> SubSeq(s, a, b), fraction |-> SubSeq(s, c + 1, d)]

\* float(s) for a text the pattern matches
float(s) ==
    LET p == DecimalParts(s)
        digits == DigitsValue(p.whole \o p.fraction)
    IN FloatValue(IF p.negative THEN 0 - digits ELSE digits,
                  0 - Len(p.fraction))

\* json.loads.  A scan returns the value and the position after it, or the
\* exception it raises.  The texts hold no backslash, no exponent and none
\* of NaN and Infinity.
Scanned(value, next) == [err |-> "none", value |-> value, next |-> next]
ScanError(kind) == [err |-> kind, value |-> NoneValue, next |-> 0]

\* The string whose opening quote stands before i
scanstring(s, i) ==
    LET q == FindFirst(s, i, {"\"", "\n", "\t"})
    IN IF q <= Len(s) /\ s[q] = "\"" THEN Scanned(SubSeq(s, i, q - 1), q + 1)
       ELSE ScanError("JSONDecodeError")

\* (-?(?:0|[1-9]\d*))(\.\d+)? at i
NumberAt(s, i) ==
    LET negative == i <= Len(s) /\ s[i] = "-"
        a == IF negative THEN i + 1 ELSE i
        b == IF a <= Len(s) /\ s[a] = "0" THEN a ELSE DigitsEnd(s, a)
        d == IF b < Len(s) /\ s[b + 1] = "." THEN DigitsEnd(s, b + 2) ELSE b
        whole == DigitsValue(SubSeq(s, a, b))
        both == DigitsValue(SubSeq(s, a, b) \o SubSeq(s, b + 2, d))
    IN IF b < a THEN ScanError("JSONDecodeError")
       ELSE IF d >= b + 2
       THEN Scanned(FloatValue(IF negative THEN 0 - both ELSE both,
                               0 - (d - b - 1)), d + 1)
       ELSE Scanned(IntValue(IF negative THEN 0 - whole ELSE whole), b + 1)

\* dict[key] = value, in the order of insertion
Put(pairs, key, value) ==
    IF \E i \in DOMAIN pairs : pairs[i].key = key
    THEN [i \in DOMAIN pairs |->
            IF pairs[i].key = key THEN [key |-> key, value |-> value]
            ELSE pairs[i]]
    ELSE Append(pairs, [key |-> key, value |-> value])

RECURSIVE scan_once(_, _, _)
RECURSIVE JSONArray(_, _, _, _)
RECURSIVE JSONObject(_, _, _, _)

\* The items of an array from i on, after those of items
JSONArray(s, i, depth, items) ==
    LET v == scan_once(s, i, depth)
        e == SkipSpaces(s, v.next)
    IN IF v.err # "none" THEN v
       ELSE IF e > Len(s) THEN ScanError("JSONDecodeError")
       ELSE IF s[e] = "]" THEN Scanned(ListValue(Append(items, v.value)), e + 1)
       ELSE IF s[e] = ","
       THEN JSONArray(s, SkipSpaces(s, e + 1), depth, Append(items, v.value))
       ELSE ScanError("JSONDecodeError")

\* The members of an object from i on, after those of pairs
JSONObject(s, i, depth, pairs) ==
    IF i > Len(s) \/ s[i] # "\"" THEN ScanError("JSONDecodeError")
    ELSE LET k == scanstring(s, i + 1)
             c == SkipSpaces(s, k.next)
         IN IF k.err # "none" THEN k
            ELSE IF c > Len(s) \/ s[c] # ":" THEN ScanError("JSONDecodeError")
            ELSE LET v == scan_once(s, SkipSpaces(s, c + 1), depth)
                     e == SkipSpaces(s, v.next)
                     members == Put(pairs, k.value, v.value)
                 IN IF v.err # "none" THEN v
                    ELSE IF e > Len(s) THEN ScanError("JSONDecodeError")
                    ELSE IF s[e] = "}" THEN Scanned(DictValue(members), e + 1)
                    ELSE IF s[e] = ","
                    THEN JSONObject(s, SkipSpaces(s, e + 1), depth, members)
                    ELSE ScanError("JSONDecodeError")

scan_once(s, i, depth) ==
    IF i > Len(s) THEN ScanError("JSONDecodeError")
    ELSE IF s[i] = "\""
    THEN LET r == scanstring(s, i + 1)
         IN IF r.err = "none" THEN Scanned(StrValue(r.value), r.next) ELSE r
    ELSE IF s[i] \in {"{", "["} /\ depth >= RecursionLimit
    THEN ScanError("RecursionError")
    ELSE IF s[i] = "{"
    THEN LET j == SkipSpaces(s, i + 1)
         IN IF j <= Len(s) /\ s[j] = "}" THEN Scanned(DictValue(<<>>), j + 1)
            ELSE JSONObject(s, j, depth + 1, <<>>)
    ELSE IF s[i] = "["
    THEN LET j == SkipSpaces(s, i + 1)
         IN IF j <= Len(s) /\ s[j] = "]" THEN Scanned(ListValue(<<>>), j + 1)
            ELSE JSONArray(s, j, depth + 1, <<>>)
    ELSE IF HasAt(s, <<"n", "u", "l", "l">>, i) THEN Scanned(NoneValue, i + 4)
    ELSE IF HasAt(s, <<"t", "r", "u", "e">>, i) THEN Scanned(BoolValue(TRUE), i + 4)
    ELSE IF HasAt(s, <<"f", "a", "l", "s", "e">>, i) THEN Scanned(BoolValue(FALSE), i + 5)
    ELSE NumberAt(s, i)

json_loads(s) ==
    LET v == scan_once(s, SkipSpaces(s, 1), 0)
    IN IF v.err = "none" /\ SkipSpaces(s, v.next) <= Len(s)
       THEN ScanError("JSONDecodeError")
       ELSE v

HasKey(pairs, key) == \E i \in DOMAIN pairs : pairs[i].key = key
GetItem(pairs, key) == pairs[CHOOSE i \in DOMAIN pairs : pairs[i].key = key].value

Returned(value) == [outcome |-> "returned", value |-> value]
Raised(kind) == [outcome |-> "raised", exception |-> kind]

\* The lines that start with a fence are dropped
without_fences(s) ==
    IF StartsWith(s, Fence)
    THEN Strip(Join(SelectSeq(Split(s, "\n"),
                              LAMBDA line : ~StartsWith(line, Fence)),
                    <<"\n">>))
    ELSE s

parse_answer(raw) ==
    LET answer_text == without_fences(Strip(raw))
        looks_like_answer ==
            /\ StartsWith(answer_text, <<"{">>)
            /\ Contains(answer_text, <<"\"", "a", "n", "s", "w", "e", "r", "\"">>)
        parsed == json_loads(answer_text)
        is_integer ==
            /\ ~Contains(answer_text, <<".">>)
            /\ IsDigit(LStrip(answer_text, {"-"}))
    IN IF looks_like_answer /\ parsed.err = "RecursionError"
       THEN Raised("RecursionError")
       ELSE IF /\ looks_like_answer
               /\ parsed.err = "none"
               /\ parsed.value.type = "dict"
               /\ HasKey(parsed.value.dict, <<"a", "n", "s", "w", "e", "r">>)
       THEN Returned(GetItem(parsed.value.dict, <<"a", "n", "s", "w", "e", "r">>))
       ELSE IF Lower(answer_text) \in {<<"t", "r", "u", "e">>, <<"f", "a", "l", "s", "e">>}
       THEN Returned(BoolValue(Lower(answer_text) = <<"t", "r", "u", "e">>))
       ELSE IF is_integer /\ int(answer_text).err = "none"
       THEN Returned(int(answer_text).value)
       ELSE IF DecimalParts(answer_text).match
       THEN Returned(float(answer_text))
       ELSE IF parsed.err = "none" THEN Returned(parsed.value)
       ELSE IF parsed.err = "RecursionError" THEN Raised("RecursionError")
       ELSE Returned(StrValue(answer_text))

\* The pieces solver outputs are made of
Pieces ==
    { <<Backtick, Backtick, Backtick>>, <<Backtick, Backtick, Backtick, "j", "s", "o", "n", "\n">>, <<"\n", Backtick, Backtick, Backtick>>, <<"-">>, <<"5">>, <<"4", "0">>, <<".">>,
      <<"t", "r", "u", "e">>, <<"T", "R", "U", "E">>, <<"{", "\"", "a", "n", "s", "w", "e", "r", "\"", ":", " ">>, <<"}">>, <<"[">>, <<"]">>,
      <<"h", "e", "l", "l", "o">>, <<"\"", "h", "i", "\"">>, <<" ">> }

\* Pieces of one solver output
MaxPieces == 3

SolverOutputs == {Join(ps, <<>>) : ps \in SeqsUpTo(Pieces, MaxPieces)}

InitNormalizer ==
    /\ ChainIdle
    /\ arg \in SolverOutputs
    /\ ret = [calls |-> 0, outcomes |-> <<>>]

\* One more call of _parse_answer on the text
ParseAnswer ==
    /\ ret.calls < MaxCalls
    /\ ret' = [calls |-> ret.calls + 1,
               outcomes |-> Append(ret.outcomes, parse_answer(arg))]
    /\ UNCHANGED <<arg, chain_idle_vars>>

NormalizerSpec == InitNormalizer /\ [][ParseAnswer]_vars

(***************************************************************************)
(* QuizOrchestrator._solve_by_type with the arguments of its calls.  The   *)
(* log holds the calls placed and what came back, in order.                *)
(***************************************************************************)
Called(to, text) == [event |-> "call", to |-> to, text |-> text]
CameBack(to, text) == [event |-> "return", to |-> to, text |-> text]
Failed(to) == [event |-> "raise", to |-> to, text |-> <<>>]

\* The prompt of the page description
DescribePrompt ==
    <<"D", "e", "s", "c", "r", "i", "b", "e", " ", "t", "h", "i", "s", " ", "q", "u", "i", "z", " ", "p", "a", "g", "e", ".", " ", "W", "h", "a", "t", " ", "e", "x", "a", "c", "t", "l", "y", " ", "i", "s", " ", "t", "h", "e", " ", "q", "u", "e", "s", "t", "i", "o", "n", " ", "a", "s", "k", "i", "n", "g", "?", " ", "W", "h", "a", "t", " ", "d", "a", "t", "a", " ", "o", "p", "e", "r", "a", "t", "i", "o", "n", " ", "i", "s", " ", "n", "e", "e", "d", "e", "d", "?", " ", "W", "h", "a", "t", " ", "f", "o", "r", "m", "a", "t", " ", "s", "h", "o", "u", "l", "d", " ", "t", "h", "e", " ", "a", "n", "s", "w", "e", "r", " ", "b", "e", " ", "i", "n", "?">>

\* A variant that hands the question on as it is
bare_question(question, vision_analysis) == question

\* f"{quiz_content.question}\n\nPage Analysis: {vision_analysis}"
enhanced_question(question, vision_analysis) ==
    question \o <<"\n", "\n", "P", "a", "g", "e", " ", "A", "n", "a", "l", "y", "s", "i", "s", ":", " ">> \o vision_analysis

\* Questions of pages, and descriptions the vision call returns (stripped)
Questions == { <<>>, <<"s", "u", "m", " ", "o", "f", " ", "x", "?">>, <<"W", "h", "a", "t", " ", "i", "s", " ", "t", "h", "e", " ", "c", "o", "u", "n", "t", "?">>, <<"P", "a", "g", "e", " ", "A", "n", "a", "l", "y", "s", "i", "s", ":", " ">> }
Descriptions == { <<>>, <<"a", " ", "t", "a", "b", "l", "e">>, <<"s", "u", "m", " ", "o", "f", " ", "x", "?">> }

\* The text the first call of the dispatch is given
FirstCallText(target) ==
    IF target = "data_vision" THEN DescribePrompt ELSE arg.question

InitDispatch ==
    /\ ChainIdle
    /\ arg \in [quiz_content : {qc \in QuizContents : qc.submission_url # ""},
                question : Questions]
    /\ ret = [pc |-> "dispatch", log |-> <<>>]

\* _solve_by_type routes by category and places the first call
SolveByType ==
    /\ ret.pc = "dispatch"
    /\ LET target == DispatchTarget(arg.quiz_content)
       IN ret' = [pc |-> target,
                  log |-> <<Called(target, FirstCallText(target))>>]
    /\ UNCHANGED <<arg, chain_idle_vars>>

\* data: the description came back; data_handler.solve is called with the
\* enhanced question
VisionDescribes ==
    /\ ret.pc = "data_vision"
    /\ \E vision_analysis \in Descriptions :
          ret' = [pc |-> "solve_data",
                  log |-> ret.log
                            \o <<CameBack("data_vision", vision_analysis),
                                 Called("solve_data",
                                        enhanced_question(arg.question,
                                                          vision_analysis))>>]
    /\ UNCHANGED <<arg, chain_idle_vars>>

\* scraping: the content of the path came back; llm.analyze_quiz is asked
ScrapeFetched ==
    /\ ret.pc = "scrape_fetch"
    /\ ret' = [pc |-> "scrape_llm",
               log |-> ret.log \o <<CameBack("scrape_fetch", <<>>),
                                    Called("scrape_llm", arg.question)>>]
    /\ UNCHANGED <<arg, chain_idle_vars>>

\* The last call of the dispatch comes back and _solve_by_type returns
CallReturns ==
    /\ ret.pc \in SolverPositions \cup {"vision"}
    /\ ret' = [pc |-> "returned",
               log |-> Append(ret.log, CameBack(ret.pc, <<>>))]
    /\ UNCHANGED <<arg, chain_idle_vars>>

\* The call awaited raises; _solve_by_type has no handler
CallRaises ==
    /\ ret.pc \in DispatchAwaits \ {"solve_pdf"}
    /\ ret' = [pc |-> "raised", log |-> Append(ret.log, Failed(ret.pc))]
    /\ UNCHANGED <<arg, chain_idle_vars>>

NextDispatch ==
    SolveByType \/ VisionDescribes \/ ScrapeFetched \/ CallReturns \/ CallRaises

DispatchSpec == InitDispatch /\ [][NextDispatch]_vars

(***************************************************************************)
(* QuizOrchestrator._solve_scraping_task(quiz_content, base_url,           *)
(* screenshot) with the arguments of its calls                             *)
(***************************************************************************)
\* (/[^\s<>"']+) at j: the path, or <<>>
PathAt(s, j) ==
    LET e == RunEnd(s, j + 1, Spaces \cup {"<", ">", "\"", "'"})
    IN IF j <= Len(s) /\ s[j] = "/" /\ e > j THEN SubSeq(s, j, e) ELSE <<>>

\* \s+(/[^\s<>"']+) at j
SpacesThenPath(s, j) ==
    LET a == SkipSpaces(s, j) IN IF a > j THEN PathAt(s, a) ELSE <<>>

\* re.search of r'[Ss]crape\s+(/[^\s<>"\']+)' and of the pattern of Visit:
\* group 1 of the leftmost match, or <<>>
PathAfterVerb(s, capitals, rest) ==
    LET from(i) == i + 1 + Len(rest)
        found == {i \in 1..Len(s) :
                    /\ s[i] \in capitals
                    /\ HasAt(s, rest, i + 1)
                    /\ SpacesThenPath(s, from(i)) # <<>>}
    IN IF found = {} THEN <<>> ELSE SpacesThenPath(s, from(Min(found)))

\* re.search of r'[Gg]et.*?from\s+(/[^\s<>"\']+)': the lazy run holds no
\* line break and ends at the first "from" that a path follows
PathAfterGetFrom(s) ==
    LET froms(i) == {j \in (i + 3)..Len(s) :
                        /\ HasAt(s, <<"f", "r", "o", "m">>, j)
                        /\ \A k \in (i + 3)..(j - 1) : s[k] # "\n"
                        /\ SpacesThenPath(s, j + 4) # <<>>}
        found == {i \in 1..Len(s) :
                    s[i] \in {"G", "g"} /\ HasAt(s, <<"e", "t">>, i + 1) /\ froms(i) # {}}
    IN IF found = {} THEN <<>>
       ELSE SpacesThenPath(s, Min(froms(Min(found))) + 4)

\* re.search of r'href="(/[^"]+)"'
PathInHref(s) ==
    LET close(i) == FindFirst(s, i + 7, {"\""})
        found == {i \in 1..Len(s) :
                    /\ HasAt(s, <<"h", "r", "e", "f", "=", "\"", "/">>, i)
                    /\ close(i) <= Len(s)
                    /\ close(i) > i + 7}
    IN IF found = {} THEN <<>>
       ELSE SubSeq(s, Min(found) + 6, close(Min(found)) - 1)

\* The loop over url_patterns: the first pattern that matches gives the path
scrape_url(question, raw_html) ==
    LET text == question \o raw_html
        matches == << PathAfterVerb(text, {"S", "s"}, <<"c", "r", "a", "p", "e">>),
                      PathAfterVerb(text, {"V", "v"}, <<"i", "s", "i", "t">>),
                      PathAfterGetFrom(text),
                      PathInHref(text) >>
        hits == {i \in DOMAIN matches : matches[i] # <<>>}
    IN IF hits = {} THEN <<>> ELSE matches[Min(hits)]

\* A variant that leaves the fetched content out
scrape_context_without_content(absolute_url, scraped_content) ==
    <<"S", "c", "r", "a", "p", "e", "d", " ", "c", "o", "n", "t", "e", "n", "t", " ", "f", "r", "o", "m", " ">> \o absolute_url \o <<":", "\n">>

\* f"Scraped content from {absolute_url}:\n{scraped_content}"
scrape_context(absolute_url, scraped_content) ==
    <<"S", "c", "r", "a", "p", "e", "d", " ", "c", "o", "n", "t", "e", "n", "t", " ", "f", "r", "o", "m", " ">> \o absolute_url \o <<":", "\n">> \o scraped_content

\* llm.analyze_quiz(question=..., context=...): no image is passed
Asked(to, question, context) ==
    [event |-> "call", to |-> to, text |-> question, context |-> context,
     image |-> FALSE]

\* Questions and raw content of scraping pages, and what a fetch returns
ScrapeQuestions ==
    { <<"S", "c", "r", "a", "p", "e", " ", "/", "d", "a", "t", "a", " ", "a", "n", "d", " ", "c", "o", "u", "n", "t">>, <<"s", "c", "r", "a", "p", "e", "\n", "/", "a", "?", "x", "=", "1", ".">>, <<"V", "i", "s", "i", "t", " ", "/", "p", " ", "n", "o", "w">>,
      <<"v", "i", "s", "i", "t", " ", " ", "/", "p", "/", "q">>, <<"G", "e", "t", " ", "t", "h", "e", " ", "s", "u", "m", " ", "f", "r", "o", "m", " ", "/", "t">>, <<"g", "e", "t", " ", "i", "t", "\n", "f", "r", "o", "m", " ", "/", "t">>,
      <<"S", "C", "R", "A", "P", "E", " ", "/", "d", "a", "t", "a">>, <<"S", "c", "r", "a", "p", "e", " ", "t", "h", "e", " ", "p", "a", "g", "e">>, <<"s", "c", "r", "a", "p", "e", " ", "/", " ">>, <<"e", "x", "t", "r", "a", "c", "t", " ", "i", "t">>,
      <<"S", "c", "r", "a", "p", "e", " ", "d", "a", "t", "a", "/", "x">>, <<>> }
RawHtmls ==
    { <<"<", "p", ">", "h", "i", "<", "/", "p", ">">>, <<"<", "a", " ", "h", "r", "e", "f", "=", "\"", "/", "l", "i", "s", "t", "\"", ">", "x", "<", "/", "a", ">">>, <<"<", "a", " ", "h", "r", "e", "f", "=", "\"", "h", "t", "t", "p", ":", "/", "/", "o", "/", "x", "\"", ">", "x", "<", "/", "a", ">">>,
      <<"<", "a", " ", "h", "r", "e", "f", "=", "'", "/", "l", "i", "s", "t", "'", ">", "x", "<", "/", "a", ">">>, <<"<", "a", " ", "h", "r", "e", "f", "=", "\"", "/", "\"", ">", "x", "<", "/", "a", ">">> }
ScrapedContents == { <<"<", "b", ">", "7", "<", "/", "b", ">">>, <<>> }

InitScrape ==
    /\ ChainIdle
    /\ arg \in [question : ScrapeQuestions, raw_html : RawHtmls,
                base_url : {<<"h", "t", "t", "p", "s", ":", "/", "/", "h", "o", "s", "t", ".", "e", "x", "a", "m", "p", "l", "e", "/", "q", "u", "i", "z", "/", "1">>, <<"h", "t", "t", "p", ":", "/", "/", "h", ":", "8", "0", "/", "q", "?", "x", "=", "1">>}]
    /\ ret = [pc |-> "scraping", log |-> <<>>]

\* The patterns are searched; the path found is fetched, or the page is
\* handed to _solve_with_vision
SearchPath ==
    /\ ret.pc = "scraping"
    /\ LET found == scrape_url(arg.question, arg.raw_html)
       IN ret' = IF found # <<>>
                 THEN [pc |-> "scrape_fetch",
                       log |-> <<Called("scrape_fetch",
                                        make_absolute_url(found, arg.base_url))>>]
                 ELSE [pc |-> "vision", log |-> <<Called("vision", arg.question)>>]
    /\ UNCHANGED <<arg, chain_idle_vars>>

\* BrowserService.get_element_content returned; llm.analyze_quiz is asked
ContentFetched ==
    /\ ret.pc = "scrape_fetch"
    /\ \E scraped_content \in ScrapedContents :
          ret' = [pc |-> "scrape_llm",
                  log |-> ret.log
                            \o << CameBack("scrape_fetch", scraped_content),
                                  Asked("scrape_llm", arg.question,
                                        scrape_context(ret.log[1].text,
                                                       scraped_content)) >>]
    /\ UNCHANGED <<arg, chain_idle_vars>>

\* The call that gives the answer returns, and with it the task
ScrapeAnswered ==
    /\ ret.pc \in {"scrape_llm", "vision"}
    /\ ret' = [pc |-> "returned", log |-> Append(ret.log, CameBack(ret.pc, <<>>))]
    /\ UNCHANGED <<arg, chain_idle_vars>>

\* A call raises; _solve_scraping_task has no handler
ScrapeRaises ==
    /\ ret.pc \in {"scrape_fetch", "scrape_llm", "vision"}
    /\ ret' = [pc |-> "raised", log |-> Append(ret.log, Failed(ret.pc))]
    /\ UNCHANGED <<arg, chain_idle_vars>>

NextScrape == SearchPath \/ ContentFetched \/ ScrapeAnswered \/ ScrapeRaises

ScrapeSpec == InitScrape /\ [][NextScrape]_vars

(***************************************************************************)
(* solve_single_quiz with the bodies it posts: the absolute endpoint and   *)
(* AnswerSubmitter.submit_answer's payload, step after step                *)
(***************************************************************************)
\* The text of the pages the chain visits
PageText(u) ==
    IF u = "u1" THEN <<"h", "t", "t", "p", "s", ":", "/", "/", "h", "o", "s", "t", ".", "e", "x", "a", "m", "p", "l", "e", "/", "q", "u", "i", "z", "/", "1">>
    ELSE <<"h", "t", "t", "p", ":", "/", "/", "h", ":", "8", "0", "8", "0", "/", "a", "/", "b", "?", "c", "=", "d">>

\* quiz_content.submission_url as the parser extracted it
SubmissionLinks == {<<"/", "s", "u", "b", "m", "i", "t">>, <<"s", "u", "b", "m", "i", "t">>, <<"h", "t", "t", "p", "s", ":", "/", "/", "o", "/", "s">>, <<"h", "t", "t", "p", "d", "o", "c", "s", "/", "s", "u", "b", "m", "i", "t">>}

\* Answers a solver may hand over
SolvedAnswers == << IntValue(42), StrValue(<<"h", "i">>), BoolValue(TRUE), NoneValue >>

Unset == [type |-> "unset"]

\* httpx sends a request only to a URL with scheme http or https and a
\* host; client.post raises UnsupportedProtocol for every other URL.
Deliverable(endpoint) ==
    \E prefix \in {<<"h", "t", "t", "p", ":", "/", "/">>, <<"h", "t", "t", "p", "s", ":", "/", "/">>} :
        /\ StartsWith(endpoint, prefix)
        /\ Len(endpoint) > Len(prefix)
        /\ endpoint[Len(prefix) + 1] \notin {"/", "?", "#"}

\* Variant that reports the endpoint as the page of the task.
PayloadOfEndpoint(email, secret, submission_url, quiz_url, an_answer) ==
    [email |-> email, secret |-> secret, url |-> submission_url, answer |-> an_answer]

\* submit_answer: payload
Payload(email, secret, submission_url, quiz_url, an_answer) ==
    [email |-> email, secret |-> secret, url |-> quiz_url, answer |-> an_answer]

StepStart(r, u, count) ==
    [r EXCEPT !.pc = "fetch", !.url = u, !.question_count = count,
              !.submission_url = <<>>, !.answer = Unset, !.attempts = 0,
              !.sent = <<>>]

\* QuizOrchestrator(email, secret) and the first step of solve_quiz_chain
InitPost ==
    /\ ChainIdle
    /\ arg \in [email : {"a@example.org", "b@example.org"},
                secret : Secrets,
                url : URLs]
    /\ ret = [pc |-> "fetch", url |-> arg.url, question_count |-> 1,
              submitter |-> [email |-> arg.email, secret |-> arg.secret],
              submission_url |-> <<>>, answer |-> Unset, attempts |-> 0,
              sent |-> <<>>]

\* Steps 1 and 2: the page is parsed and the endpoint is made absolute.
PageParsed ==
    /\ DOMAIN ret = DOMAIN StepStart(ret, "u1", 1)
    /\ ret.pc = "fetch"
    /\ \E link \in SubmissionLinks :
         ret' = [ret EXCEPT !.pc = "solve",
                            !.submission_url = make_absolute_url(link, PageText(ret.url))]
    /\ UNCHANGED <<arg, chain_idle_vars>>

\* Step 3, or the vision call of the retry, returns the answer.
AnswerReady ==
    /\ DOMAIN ret = DOMAIN StepStart(ret, "u1", 1)
    /\ ret.pc \in {"solve", "retry"}
    /\ \E i \in DOMAIN SolvedAnswers :
         ret' = [ret EXCEPT !.pc = "post", !.answer = SolvedAnswers[i]]
    /\ UNCHANGED <<arg, chain_idle_vars>>

\* A call of the dispatch or of the retry raises: the step ends without
\* a value and the chain's loop breaks.
StepRaises ==
    /\ DOMAIN ret = DOMAIN StepStart(ret, "u1", 1)
    /\ ret.pc \in {"solve", "retry"}
    /\ ret' = [ret EXCEPT !.pc = "done"]
    /\ UNCHANGED <<arg, chain_idle_vars>>

\* submit_answer(submission_url, url, answer): client.post(submission_url,
\* json=payload) sends the request, or raises before anything is sent.
Post ==
    /\ DOMAIN ret = DOMAIN StepStart(ret, "u1", 1)
    /\ ret.pc = "post"
    /\ ret' = [ret EXCEPT
                 !.pc = "verdict",
                 !.attempts = @ + 1,
                 !.sent = IF Deliverable(ret.submission_url)
                          THEN Append(@, [to |-> ret.submission_url,
                                          json |-> Payload(ret.submitter.email,
                                                           ret.submitter.secret,
                                                           ret.submission_url,
                                                           ret.url, ret.answer)])
                          ELSE @]
    /\ UNCHANGED <<arg, chain_idle_vars>>

\* submit_answer returns: the retry, or the step's result and the loop test
Verdict ==
    /\ DOMAIN ret = DOMAIN StepStart(ret, "u1", 1)
    /\ ret.pc = "verdict"
    /\ \E resp \in Responses :
         LET r == submit_answer(resp).value IN
         /\ ~Deliverable(ret.submission_url) => resp.kind = "transport_error"
         /\ ret' = IF ret.attempts = 1 /\ ShouldRetry(r)
                    THEN [ret EXCEPT !.pc = "retry"]
                    ELSE IF LoopCond(NextUrl(r, ret.url), ret.question_count, MaxQuestions)
                    THEN StepStart(ret, NextUrl(r, ret.url), ret.question_count + 1)
                    ELSE [ret EXCEPT !.pc = "done"]
    /\ UNCHANGED <<arg, chain_idle_vars>>

NextPost ==
    \/ PageParsed
    \/ AnswerReady
    \/ StepRaises
    \/ Post
    \/ Verdict

PostSpec == InitPost /\ [][NextPost]_vars

(***************************************************************************)
(* One step from the dispatch to its submissions: where the answer handed  *)
(* to submit_answer comes from                                             *)
(***************************************************************************)
\* What a language-model call may answer
RawOutputs ==
    {<<"4", "2">>, <<"n", "u", "l", "l">>, <<" ", "h", "e", "l", "l", "o", " ">>, <<"{", "\"", "a", "n", "s", "w", "e", "r", "\"", ":", " ", "n", "u", "l", "l", "}">>, <<"{", "\"", "a", "n", "s", "w", "e", "r", "\"", ":", " ", "t", "r", "u", "e", "}">>, <<>>}

\* Sums the direct computation of DataHandler may return
Sums == {0, 350}

\* The descriptor of the step's page
InitAnswer ==
    /\ ChainIdle
    /\ arg \in {q \in QuizContents : Truthy(q.submission_url)}
    /\ ret = [pc |-> "dispatch", branch |-> "-", answer |-> Unset, raw |-> Absent,
              handed |-> <<>>]

\* _solve_by_type picks the branch
BranchTaken ==
    /\ DOMAIN ret = {"pc", "branch", "answer", "raw", "handed"}
    /\ ret.pc = "dispatch"
    /\ ret' = [ret EXCEPT !.pc = "solve", !.branch = DispatchTarget(arg)]
    /\ UNCHANGED <<arg, chain_idle_vars>>

Solved(an_answer, raw) ==
    /\ ret' = [ret EXCEPT !.pc = "submit", !.answer = an_answer, !.raw = raw]
    /\ UNCHANGED <<arg, chain_idle_vars>>

\* The language model's text is the answer: llm.analyze_quiz at the end of
\* a branch, _solve_with_vision in the dispatch or as the retry, and the
\* first page that PDFHandler._solve_with_vision gets a text for all
\* return self._parse_answer(text), the text stripped.
ModelAnswers ==
    /\ DOMAIN ret = {"pc", "branch", "answer", "raw", "handed"}
    /\ ret.pc \in {"solve", "retry"}
    /\ \E raw \in RawOutputs :
         LET parsed == parse_answer(Strip(raw))
         IN parsed.outcome = "returned" /\ Solved(parsed.value, Some(raw))

\* DataHandler.solve: _try_direct_computation found a cutoff in the question
\* and returns the sum it computed from the downloaded table.
DirectComputation ==
    /\ DOMAIN ret = {"pc", "branch", "answer", "raw", "handed"}
    /\ ret.pc = "solve"
    /\ ret.branch = "data_vision"
    /\ Truthy(arg.download_url)
    /\ \E n \in Sums : Solved(IntValue(n), Absent)

\* PDFHandler.solve caught an exception and its own _solve_with_vision got
\* no page or no text for any page, or failed: it returns None.
PdfFallbackFails ==
    /\ DOMAIN ret = {"pc", "branch", "answer", "raw", "handed"}
    /\ ret.pc = "solve"
    /\ ret.branch = "solve_pdf"
    /\ Solved(NoneValue, Absent)

\* A call of the dispatch or of the retry raises and leaves the step;
\* PDFHandler.solve catches its own.
SolveRaises ==
    /\ DOMAIN ret = {"pc", "branch", "answer", "raw", "handed"}
    /\ \/ ret.pc = "solve" /\ ret.branch # "solve_pdf"
       \/ ret.pc = "retry"
    /\ ret' = [ret EXCEPT !.pc = "raised"]
    /\ UNCHANGED <<arg, chain_idle_vars>>

\* submit_answer(submission_url, url, answer) gets the answer as it is; its
\* verdict sends the step to the retry or ends it.
Submits ==
    /\ DOMAIN ret = {"pc", "branch", "answer", "raw", "handed"}
    /\ ret.pc = "submit"
    /\ \E resp \in Responses :
         ret' = [ret EXCEPT
                   !.handed = Append(@, [answer |-> ret.answer, raw |-> ret.raw]),
                   !.pc = IF ret.handed = <<>> /\ ShouldRetry(submit_answer(resp).value)
                          THEN "retry" ELSE "returned"]
    /\ UNCHANGED <<arg, chain_idle_vars>>

NextAnswer ==
    \/ BranchTaken
    \/ ModelAnswers
    \/ DirectComputation
    \/ PdfFallbackFails
    \/ SolveRaises
    \/ Submits

AnswerSpec == InitAnswer /\ [][NextAnswer]_vars

(***************************************************************************)
(* Application shutdown while chains run: main.lifespan calls              *)
(* BrowserService.cleanup, the chains go on calling get_page.  cls._browser *)
(* is None, a running browser, or a browser that has closed and is still   *)
(* referenced.                                                             *)
(***************************************************************************)
\* The task that runs lifespan
Lifespan == 3

\* lifespan started the application: the browser was launched, the chains
\* were created by the trigger handler.
InitShutdown ==
    /\ pc = "off"
    /\ current_url = None
    /\ question_count = 0
    /\ results = <<>>
    /\ url = None
    /\ quiz_content = NoContent
    /\ answer = None
    /\ result = NoResult
    /\ submitter_client = "open"
    /\ data_client = "open"
    /\ pdf_client = "open"
    /\ renders = 0
    /\ posts = 0
    /\ step_posts = 0
    /\ solver_calls = 0
    /\ vision_calls = 0
    /\ first_verdict = NoResult
    /\ vision_at_first = 0
    /\ verdicts = <<>>
    /\ completed = 0
    /\ response = NoResponse
    /\ always_next_url = TRUE
    /\ failure = NoFailure
    /\ exit_path = "running"
    /\ step_submits = 0
    /\ step_replies = 0
    /\ request = [email |-> "e", secret |-> STORED_SECRET, url |-> "u1"]
    /\ caller = "accepted"
    /\ tasks = 2
    /\ arg = NoCall
    /\ ret = NoCall
    /\ c_pc = [c \in Chains \cup {Lifespan} |->
                 IF c = Lifespan THEN "serving" ELSE "new"]
    /\ orchestrators = [c \in Chains |-> NoOrchestrator]
    /\ lists = [i \in ListIds |-> <<>>]
    /\ http_clients = [i \in ClientIds |-> "unmade"]
    /\ served = [c \in Chains |-> <<>>]
    /\ browser = "running"
    /\ lock = 0
    /\ contexts = {}
    /\ visits = [c \in Chains |-> NoVisit]

\* cleanup: async with cls._lock (entered when the lock is free)
CleanupAcquire ==
    /\ c_pc[Lifespan] = "serving"
    /\ lock = 0
    /\ lock' = Lifespan
    /\ c_pc' = [c_pc EXCEPT ![Lifespan] = "cleanup_locked"]
    /\ UNCHANGED <<single_vars, orchestrators, lists, http_clients, served,
                   browser, contexts, visits>>

\* cleanup: if cls._browser: await cls._browser.close() is called
CleanupCloseCalled ==
    /\ c_pc[Lifespan] = "cleanup_locked"
    /\ IF browser # None
       THEN /\ c_pc' = [c_pc EXCEPT ![Lifespan] = "browser_closing"]
            /\ UNCHANGED lock
       ELSE /\ c_pc' = [c_pc EXCEPT ![Lifespan] = "stopped"]
            /\ lock' = 0
    /\ UNCHANGED <<single_vars, orchestrators, lists, http_clients, served,
                   browser, contexts, visits>>

\* The browser has closed, and its contexts with it; cleanup, which awaits
\* the close, has not run again yet.
BrowserClosed ==
    /\ c_pc[Lifespan] = "browser_closing"
    /\ browser = "running"
    /\ browser' = "closed"
    /\ contexts' = {}
    /\ UNCHANGED <<single_vars, c_pc, orchestrators, lists, http_clients, served,
                   lock, visits>>

\* cleanup: close() returned; cls._browser = None; playwright stopped; the
\* lock is left
CleanupCloseReturn ==
    /\ c_pc[Lifespan] = "browser_closing"
    /\ browser = "closed"
    /\ browser' = None
    /\ lock' = 0
    /\ c_pc' = [c_pc EXCEPT ![Lifespan] = "stopped"]
    /\ UNCHANGED <<single_vars, orchestrators, lists, http_clients, served,
                   contexts, visits>>

\* A closed browser gives no context and no page: the call raises.
NextShutdown ==
    \/ CleanupAcquire
    \/ CleanupCloseCalled
    \/ BrowserClosed
    \/ CleanupCloseReturn
    \/ \E c \in Chains :
        \/ Construct(c)
        \/ ConcLoop(c)
        \/ GetPage(c)
        \/ Acquire(c)
        \/ InitLocked(c)
        \/ LaunchReturn(c)
        \/ LaunchRaise(c)
        \/ browser = "running" /\ NewContextReturn(c)
        \/ NewContextRaise(c)
        \/ browser = "running" /\ NewPageReturn(c)
        \/ NewPageRaise(c)
        \/ TryEnds(c)
        \/ ContextClose(c)
        \/ ConcDispatch(c)
        \/ ConcRecord(c)
        \/ ConcClose(c)
        \/ ConcTimeout(c)

ShutdownSpec == InitShutdown /\ [][NextShutdown]_vars

(***************************************************************************)
(* Properties                                                              *)
(***************************************************************************)
HasFirstVerdict == first_verdict # NoResult

\* The verdict asks for the retry: incorrect and without a continuation URL.
Retriable(v) == v # NoResult /\ ~v.correct /\ v.url = None

\* The values recorded so far are the latest values of the steps that returned.
ResultsAreCompletedVerdicts ==
    /\ Len(results) = completed
    /\ \A k \in 1..completed : results[k] = verdicts[k]

\* C1: a step whose first verdict is incorrect and has no nextUrl goes on to
\* exactly one more visual-analysis call and, when it returns, has posted
\* exactly twice; the second POST is never made without that call; and no
\* step ever posts more than twice, whatever the second verdict is.
C1_SingleVisualRetry ==
    /\ step_posts <= 2
    /\ (pc \in {"retry_vision", "submit2"} =>
            /\ Retriable(first_verdict)
            /\ vision_calls = vision_at_first + 1)
    /\ (pc = "submit2" => step_posts = 2)
    /\ (pc = "record" /\ Retriable(first_verdict) =>
            /\ step_posts = 2
            /\ vision_calls = vision_at_first + 1)
    /\ (step_posts = 2 => Retriable(first_verdict))

\* A step of a category with its own solver returns after a retry whose
\* verdict is again incorrect and without nextUrl.
C1_Witness ==
    /\ pc = "record"
    /\ quiz_content.quiz_type = "api"
    /\ Retriable(first_verdict)
    /\ Retriable(result)
    /\ step_posts = 2

\* C2: a step whose verdict carries a nextUrl makes no retry, and the page
\* a later step fetches is exactly the nextUrl of the verdict before it,
\* whether that verdict was correct or not.
C2_NextUrlDecidesContinuation ==
    /\ (HasFirstVerdict /\ first_verdict.url # None =>
            /\ pc \notin {"retry_vision", "submit2"}
            /\ step_posts = 1
            /\ verdicts[question_count] = first_verdict)
    /\ (pc = "loop" /\ completed >= 1 => current_url = verdicts[completed].url)
    /\ (pc \in StepPositions /\ question_count > 1 =>
            /\ completed = question_count - 1
            /\ url = verdicts[question_count - 1].url)

\* The second step fetches the nextUrl of an incorrect first verdict.
C2_Witness ==
    /\ pc = "fetch"
    /\ question_count = 2
    /\ ~verdicts[1].correct
    /\ url = "u2"
    /\ posts = 1

\* C3: with the judge answering every submission with a nextUrl (and no
\* collaborator failing, every page parsed), the chain ends after exactly
\* MaxQuestions renders and MaxQuestions submissions; in no run is a step
\* beyond MaxQuestions started.
C3_StopsAtStepLimit ==
    /\ question_count <= MaxQuestions
    /\ renders <= MaxQuestions
    /\ (/\ pc = "done"
        /\ always_next_url
        /\ failure.kind = "none"
        /\ question_count >= 1
        => /\ renders = MaxQuestions
           /\ posts = MaxQuestions
           /\ completed = MaxQuestions
           /\ exit_path = "limit")

\* The chain stopped at the limit while holding a continuation URL.
C3_Witness ==
    /\ pc = "done"
    /\ always_next_url
    /\ failure.kind = "none"
    /\ exit_path = "limit"
    /\ Truthy(current_url)
    /\ posts = MaxQuestions

\* C4: after a page without submission endpoint the step has called no
\* solver and posted nothing, its recorded result has correct = false, and
\* the chain starts no further step.
C4_ParseFailureEndsChain ==
    failure.kind = "parse" =>
        /\ step_posts = 0
        /\ solver_calls = 0
        /\ vision_calls = 0
        /\ pc \in {"record", "loop", "closing", "done", "timed_out"}
        /\ renders = question_count
        /\ (pc # "record" =>
                /\ Len(results) = question_count
                /\ ~results[question_count].correct
                /\ results[question_count].reason = "No submission URL found"
                /\ ~Truthy(current_url))

\* The chain ended on an unparseable first page with steps to spare.
C4_Witness ==
    /\ pc = "done"
    /\ exit_path = "parse_failure"
    /\ question_count = 1
    /\ question_count < MaxQuestions
    /\ Len(results) = 1

\* C5: after the rendering collaborator raised, the chain is on its way
\* out: the page was rendered once only, the step posted nothing, no later
\* step runs, and the results are those of the steps completed before.
C5_RenderFailureAbortsChain ==
    failure.kind = "render" =>
        /\ pc \in {"closing", "done", "timed_out"}
        /\ renders = question_count
        /\ step_posts = 0
        /\ solver_calls = 0
        /\ vision_calls = 0
        /\ completed = question_count - 1
        /\ ResultsAreCompletedVerdicts

\* The second page failed to render after a recorded first step.
C5_Witness ==
    /\ pc = "done"
    /\ failure.kind = "render"
    /\ question_count = 2
    /\ Len(results) = 1

\* C6: a collaborator of the dispatch step that raises is answered by a
\* visual-analysis fallback attempt: after such a failure at least one
\* visual-analysis call was made beyond those made before it.
C6_SolverExceptionFallsBack ==
    failure.kind = "solver" /\ pc \in {"closing", "done"} =>
        vision_calls > failure.vision

\* C7: a chain that ended otherwise than by the deadline has released the
\* submission, data-download and PDF-download clients.
C7_AllClientsReleased ==
    pc = "done" =>
        /\ submitter_client = "closed"
        /\ data_client = "closed"
        /\ pdf_client = "closed"

\* C8: wherever the deadline can cancel the chain, and after it did, the
\* results are exactly the final verdicts of the steps that returned, in
\* step order, and a step in flight has no entry.
C8_CancellationKeepsResults ==
    pc \in AwaitPoints \cup {"timed_out"} =>
        /\ ResultsAreCompletedVerdicts
        /\ (pc \in AwaitPoints \ {"closing"} =>
                /\ completed = question_count - 1
                /\ Len(results) = question_count - 1)
        /\ Len(results) <= question_count

\* The deadline struck the second step after its first verdict had arrived.
C8_Witness ==
    /\ pc = "timed_out"
    /\ question_count = 2
    /\ HasFirstVerdict
    /\ failure.kind = "none"
    /\ Len(results) = 1
    /\ submitter_client = "open"

\* C9: after the deadline cancelled the chain its submission client is
\* released.
C9_ClientReleasedAfterTimeout ==
    pc = "timed_out" => submitter_client = "closed"

FailedResponse(r) ==
    r # NoResponse /\ (r.kind = "transport_error" \/ r.status # HTTP_OK \/ ~r.json)

\* C10: submit_answer raises for no response; a non-200 status, a transport
\* failure or an unreadable body gives correct = false, a reason and no
\* nextUrl, and the step goes on as after a failed submission.
C10_SubmitNeverRaises ==
    /\ failure.kind # "submit"
    /\ (FailedResponse(response) =>
            /\ ~verdicts[question_count].correct
            /\ verdicts[question_count].url = None
            /\ verdicts[question_count].reason # None
            /\ (pc = "check" => result = verdicts[question_count])
            /\ (failure.kind = "none" => exit_path \in {"running", "complete", "timeout"}))

\* A transport failure of the retry's POST was recorded as the step's result
\* and the chain completed.
C10_Witness ==
    /\ pc = "done"
    /\ response.kind = "transport_error"
    /\ step_posts = 2
    /\ exit_path = "complete"
    /\ Len(results) = 1
    /\ ~results[1].correct

\* C11: every call of submit_answer makes exactly one POST, whatever it
\* ends with: the POSTs of a step are as many as the calls the orchestrator
\* made, in every state.
C11_OnePostPerCall ==
    /\ step_posts = step_submits
    /\ step_replies <= step_submits
    /\ posts >= step_posts
    /\ posts <= 2 * question_count

\* A call that ended in a transport failure has posted once.
C11_Witness ==
    /\ pc = "check"
    /\ response.kind = "transport_error"
    /\ step_submits = 1
    /\ step_posts = 1

FirstAttemptFailed ==
    first_verdict.reason \in {"transport error", "HTTP error status"}

\* C12: a first submission that ended in a transport failure or a non-200
\* status is followed by one visual-analysis call and one resubmission,
\* like a wrong answer, and by no further one.
C12_FailedAttemptUsesTheRetry ==
    FirstAttemptFailed =>
        /\ step_submits <= 2
        /\ vision_calls <= vision_at_first + 1
        /\ (pc = "retry_vision" =>
                step_submits = 1 /\ vision_calls = vision_at_first + 1)
        /\ (pc \in {"submit2", "record", "loop"} =>
                step_submits = 2 /\ vision_calls = vision_at_first + 1)
        /\ pc \in {"check", "retry_vision", "submit2", "record", "loop",
                   "closing", "done", "timed_out"}

\* The resubmission after a transport failure was judged correct.
C12_Witness ==
    /\ pc = "record"
    /\ first_verdict.reason = "transport error"
    /\ step_submits = 2
    /\ result.correct

OkJson(r) == r.kind = "http" /\ r.status = HTTP_OK /\ r.json

\* C13: for a 200 response with a JSON-object body the verdict has the
\* body's correct (false when missing), the body's url and reason (absent
\* when missing).
C13_VerdictFromBody ==
    OkJson(response) =>
        LET b == response.body
            v == verdicts[question_count]
        IN /\ v.correct = (IF "correct" \in DOMAIN b THEN b["correct"] ELSE FALSE)
           /\ v.url = (IF "url" \in DOMAIN b THEN b["url"] ELSE None)
           /\ v.reason = (IF "reason" \in DOMAIN b THEN b["reason"] ELSE None)
           /\ (pc \in {"check", "record"} => result = v)

\* A body with a url only gave an incorrect verdict that carries the url.
C13_Witness ==
    /\ pc = "check"
    /\ OkJson(response)
    /\ DOMAIN response.body = {"url"}
    /\ ~result.correct
    /\ result.url = "u2"
    /\ result.reason = None

\* C14: a first verdict that is correct and carries no nextUrl is not
\* retried, becomes the step's recorded result, and no step is started
\* after a recorded result that is correct and has no nextUrl.
C14_CorrectWithoutUrlEndsChain ==
    /\ (HasFirstVerdict /\ first_verdict.correct /\ first_verdict.url = None =>
            /\ step_submits = 1
            /\ vision_calls = vision_at_first
            /\ pc \in {"check", "record", "loop", "closing", "done", "timed_out"}
            /\ verdicts[question_count] = first_verdict
            /\ (pc \notin {"check", "record"} =>
                    /\ Len(results) = question_count
                    /\ results[question_count] = first_verdict
                    /\ current_url = None))
    /\ \A k \in 1..Len(results) :
            results[k].correct /\ results[k].url = None =>
                k = question_count /\ renders = k

\* The chain completed after one correct verdict without nextUrl, with
\* steps to spare.
C14_Witness ==
    /\ pc = "done"
    /\ exit_path = "complete"
    /\ question_count = 1
    /\ question_count < MaxQuestions
    /\ results[1].correct
    /\ results[1].url = None
    /\ posts = 1

\* C15: the results hold one entry per step that returned, in step order,
\* each the latest value its step produced (the retry's verdict after a
\* retry, else the first verdict); a step's return appends exactly that
\* entry, and no step of the chain changes or removes an entry.
C15_OneResultPerStep ==
    /\ [](ResultsAreCompletedVerdicts /\ Len(results) <= question_count)
    /\ [][/\ Len(results') \in {Len(results), Len(results) + 1}
          /\ SubSeq(results', 1, Len(results)) = results
          /\ (pc = "record" =>
                results' = Append(results,
                                  IF step_replies = 1 THEN first_verdict
                                  ELSE verdicts[question_count]))
          /\ (pc # "record" => results' = results)]_vars

\* The second step's entry is the verdict of its retry.
C15_Witness ==
    /\ pc = "loop"
    /\ Len(results) = 2
    /\ step_replies = 2
    /\ results[2] = verdicts[2]
    /\ results[2] # first_verdict

\* C16: from the loop test the chain goes to a fetch exactly when
\* current_url is non-empty and the counter is below the maximum, else to
\* the exit; the counter never passes the maximum; and, with every
\* collaborator call returning or raising, the chain reaches DONE.
C16_ChainTerminates ==
    /\ <>(pc = "done")
    /\ [](question_count <= MaxQuestions)
    /\ [][pc = "loop" /\ pc' # "loop" =>
            /\ (pc' = "fetch") =
                  (current_url # None /\ current_url # ""
                   /\ question_count < MaxQuestions)
            /\ pc' \in {"fetch", "closing"}]_vars

\* The judge kept returning the page already visited; the chain stopped at
\* the limit.
C16_Witness ==
    /\ pc = "done"
    /\ exit_path = "limit"
    /\ question_count = MaxQuestions
    /\ url = "u1"
    /\ current_url = "u1"

InFlight == step_submits - step_replies

\* C18: fetch, parse, dispatch and submission of a step follow one another,
\* a step's fetch starts only after the step before it returned, and at
\* most one submission is in flight.
C18_PhasesSerialized ==
    /\ [](/\ InFlight \in {0, 1}
          /\ (pc \in StepPositions \cup {"loop", "closing", "done"} =>
                (InFlight = 1) = (pc \in {"submit1", "submit2"}))
          /\ (pc = "fetch" =>
                /\ quiz_content = NoContent
                /\ completed = question_count - 1
                /\ renders = question_count
                /\ step_submits = 0)
          /\ (pc = "parse" =>
                /\ quiz_content # NoContent
                /\ solver_calls + vision_calls = 0
                /\ step_submits = 0)
          /\ (pc \in DispatchAwaits \cup {"dispatch"} =>
                /\ quiz_content.submission_url # ""
                /\ step_submits = 0)
          /\ (pc = "submit1" =>
                /\ solver_calls + vision_calls >= 1
                /\ step_submits = 1))
    /\ [][/\ (pc' = "fetch" => pc = "loop")
          /\ (pc' = "parse" => pc = "fetch")
          /\ (pc' = "dispatch" => pc = "parse")
          /\ (pc' \in DispatchAwaits /\ pc' # pc =>
                pc \in DispatchAwaits \cup {"dispatch"})
          /\ (pc' = "submit1" => pc \in DispatchAwaits)
          /\ (pc' = "check" => pc = "submit1")
          /\ (pc' = "retry_vision" => pc = "check")
          /\ (pc' = "submit2" => pc = "retry_vision")
          /\ (pc' = "record" /\ pc' # pc => pc \in {"parse", "check", "submit2"})
          /\ (pc' = "loop" /\ pc' # pc => pc = "record")]_vars

\* The second step awaits its retry's submission, alone in flight.
C18_Witness ==
    /\ pc = "submit2"
    /\ question_count = 2
    /\ completed = 1
    /\ InFlight = 1
    /\ step_submits = 2

\* C17: a trigger with a wrong secret is answered 403 and starts no chain;
\* a trigger with the matching secret starts one background chain and is
\* acknowledged before the chain has done anything, and the caller's answer
\* never changes afterwards, whatever the chain ends with.
C17_TriggerAcknowledgedOnly ==
    /\ [](/\ (request.secret # STORED_SECRET =>
                /\ tasks = 0
                /\ pc \in {"idle", "rejected"}
                /\ caller \in {"waiting", "403"}
                /\ question_count = 0 /\ renders = 0 /\ posts = 0)
          /\ (request.secret = STORED_SECRET =>
                /\ caller \in {"waiting", "accepted"}
                /\ (caller = "waiting") = (pc = "idle")
                /\ tasks = (IF pc = "idle" THEN 0 ELSE 1))
          /\ tasks <= 1)
    /\ [][/\ (caller # "waiting" => caller' = caller)
          /\ (caller = "waiting" /\ caller' = "accepted" =>
                question_count' = 0 /\ renders' = 0 /\ pc' = "loop")]_vars

\* The background chain was cancelled by its deadline after the caller had
\* its acknowledgment.
C17_Witness ==
    /\ pc = "timed_out"
    /\ exit_path = "timeout"
    /\ caller = "accepted"
    /\ tasks = 1
    /\ request.secret = STORED_SECRET

Built(c) == c_pc[c] # "new"

RecordedBy(c) == lists[orchestrators[c].results]

\* C19: under every interleaving of two chains each orchestrator has a
\* results list and a client of its own, a step of one chain leaves the
\* fields, the results, the client and the served verdicts of the other
\* unchanged, and each chain's results, current URL and credentials are
\* those given by its own judge responses alone.
C19_ChainsShareNoState ==
    /\ [](/\ \A c \in Chains : Built(c) =>
                /\ RecordedBy(c) = served[c]
                /\ orchestrators[c].email = Email(c)
                /\ orchestrators[c].secret = STORED_SECRET
                /\ orchestrators[c].current_url =
                      (IF served[c] = <<>> THEN "u1"
                       ELSE served[c][Len(served[c])].url)
                /\ orchestrators[c].question_count \in
                      {Len(served[c]), Len(served[c]) + 1}
                /\ (http_clients[orchestrators[c].client] = "closed") =
                      (c_pc[c] = "done")
          /\ \A c, d \in Chains : c # d /\ Built(c) /\ Built(d) =>
                /\ orchestrators[c].results # orchestrators[d].results
                /\ orchestrators[c].client # orchestrators[d].client)
    /\ [][\A d \in Chains : c_pc'[d] = c_pc[d] /\ Built(d) =>
            /\ orchestrators'[d] = orchestrators[d]
            /\ lists'[orchestrators[d].results] = lists[orchestrators[d].results]
            /\ http_clients'[orchestrators[d].client] =
                  http_clients[orchestrators[d].client]
            /\ served'[d] = served[d]]_vars

\* Both chains are visiting their second page at once, each with a
\* different first result.
C19_Witness ==
    /\ c_pc[1] = "in_try"
    /\ c_pc[2] = "in_try"
    /\ Len(RecordedBy(1)) = 1
    /\ Len(RecordedBy(2)) = 1
    /\ RecordedBy(1) # RecordedBy(2)
    /\ visits[1].context # visits[2].context

\* Positions of a visit at which it holds a context
VisitPositions == {"new_page", "in_try", "context_close"}

InVisit(c) == c_pc[c] \in VisitPositions

\* C20: no context is held by two visits at once, and every open context
\* is the one of a visit still running: a visit that has ended, by return
\* or by exception, has left no context open.
C20_ContextPerVisitClosedAtEnd ==
    /\ \A c, d \in Chains :
            c # d /\ InVisit(c) /\ InVisit(d) =>
                visits[c].context # visits[d].context
    /\ \A c \in Chains : InVisit(c) => visits[c].context \in contexts
    /\ contexts \subseteq {visits[c].context : c \in {d \in Chains : InVisit(d)}}

Classified == ret # Pending /\ ret # NoCall

DownloadEndsWith(ext) ==
    /\ arg.download_url # Absent
    /\ EndsWith(Lower(arg.download_url[1]), ext)

\* C21: for every page text, a download endpoint ending in .pdf gives the
\* category pdf, and one ending in .csv, .xlsx or .json gives the category
\* data (tabular-data).
C21_ExtensionOutranksKeywords ==
    Classified =>
        /\ (DownloadEndsWith(<<".", "p", "d", "f">>) => ret = "pdf")
        /\ (DownloadEndsWith(<<".", "c", "s", "v">>) \/ DownloadEndsWith(<<".", "x", "l", "s", "x">>)
            \/ DownloadEndsWith(<<".", "j", "s", "o", "n">>) => ret = "data")

\* The keyword rules in their order, as the specification lists them
KeywordRules ==
    << [category |-> "api", words |-> {<<"a", "p", "i">>, <<"e", "n", "d", "p", "o", "i", "n", "t">>}],
       [category |-> "visualization",
        words |-> {<<"c", "h", "a", "r", "t">>, <<"p", "l", "o", "t">>, <<"g", "r", "a", "p", "h">>, <<"v", "i", "s", "u", "a", "l", "i", "z">>}],
       [category |-> "data",
        words |-> {<<"s", "u", "m">>, <<"a", "v", "e", "r", "a", "g", "e">>, <<"c", "o", "u", "n", "t">>, <<"f", "i", "l", "t", "e", "r">>, <<"s", "o", "r", "t">>,
                   <<"a", "g", "g", "r", "e", "g", "a", "t", "e">>}],
       [category |-> "scraping",
        words |-> {<<"s", "c", "r", "a", "p", "e">>, <<"e", "x", "t", "r", "a", "c", "t">>, <<"w", "e", "b", "s", "i", "t", "e">>, <<"p", "a", "g", "e">>}] >>

RuleMatches(i, text) ==
    \E w \in KeywordRules[i].words : Contains(Lower(text), w)

NoExtensionRule ==
    \/ arg.download_url = Absent
    \/ \A e \in {<<".", "p", "d", "f">>, <<".", "c", "s", "v">>, <<".", "x", "l", "s", "x">>, <<".", "j", "s", "o", "n">>} :
            ~Contains(Lower(arg.download_url[1]), e)

\* C22: when no download-extension rule applies the category is that of
\* the first keyword rule, in the order api, visualization, data, scraping,
\* one of whose words the text contains, and general when none does; the
\* classification always yields a category.
C22_FirstKeywordRuleWins ==
    Classified =>
        /\ ret \in {"pdf", "data", "api", "visualization", "scraping", "general"}
        /\ (NoExtensionRule =>
              IF \E i \in DOMAIN KeywordRules : RuleMatches(i, arg.text)
              THEN \E i \in DOMAIN KeywordRules :
                      /\ RuleMatches(i, arg.text)
                      /\ \A j \in 1..(i - 1) : ~RuleMatches(j, arg.text)
                      /\ ret = KeywordRules[i].category
              ELSE ret = "general")

\* A text with a tabular keyword before a visualization keyword, and a
\* download that is no pdf or data file, is a visualization task.
C22_Witness ==
    /\ ret = "visualization"
    /\ arg.text = <<"s", "u", "m", " ", "c", "h", "a", "r", "t">>
    /\ arg.download_url = Some(<<"/", "f", ".", "t", "x", "t">>)

Parsed == DOMAIN ret = {"done", "submission_url"} /\ ret.done

\* The href values of all anchors of the page, inside or outside the
\* result region, that contain "submit" in any letter case
SubmitHrefsOfPage ==
    {arg.elements[i][1].href : i \in
        {j \in DOMAIN arg.elements :
            /\ arg.elements[j][1].tag = "a"
            /\ Contains(Lower(arg.elements[j][1].href), <<"s", "u", "b", "m", "i", "t">>)}}

\* C23: for every page with an anchor whose href contains "submit",
\* wherever the anchor stands, parse_quiz_page returns such an href
\* verbatim as the submission endpoint.
C23_AnchorHrefReturnedVerbatim ==
    Parsed /\ SubmitHrefsOfPage # {} => ret.submission_url \in SubmitHrefsOfPage

RuleResults ==
    << AnchorRule(Hrefs(Region(arg))),
       PatternRule(ContentText(Region(arg))),
       SynthesizedRule(ContentText(Region(arg))),
       FallbackRule(ContentText(Region(arg))) >>

\* C24: the submission endpoint is the result of the first of the rules
\* anchor, text pattern, synthesized origin + /submit, fallback scan that
\* matches, and it is empty exactly when none of the four matches.
C24_FirstRuleWins ==
    Parsed =>
        LET rules == RuleResults
        IN /\ \A i \in DOMAIN rules :
                  /\ rules[i] # <<>>
                  /\ \A j \in 1..(i - 1) : rules[j] = <<>>
                  => ret.submission_url = rules[i]
           /\ (ret.submission_url = <<>>) =
                  (\A i \in DOMAIN rules : rules[i] = <<>>)

\* No anchor matches; a text pattern and the synthesized endpoint both do,
\* with different results, and the pattern's is returned.
C24_Witness ==
    /\ Parsed
    /\ ret.submission_url = <<"h", "t", "t", "p", ":", "/", "/", "x", "/", "z">>
    /\ LET rules == RuleResults
       IN /\ rules[1] = <<>>
          /\ rules[2] = ret.submission_url
          /\ rules[3] # <<>>
          /\ rules[3] # rules[2]

\* The page's only hint is the text "Post your answer to http://x/y", with
\* or without a full stop, among lines that hold no hint.
OnlyPostYourAnswerHint ==
    LET region == Region(arg)
        hints == {i \in DOMAIN region :
                    region[i] \in {Block(<<"P", "o", "s", "t", " ", "y", "o", "u", "r", " ", "a", "n", "s", "w", "e", "r", " ", "t", "o", " ", "h", "t", "t", "p", ":", "/", "/", "x", "/", "y">>),
                                   Block(<<"P", "o", "s", "t", " ", "y", "o", "u", "r", " ", "a", "n", "s", "w", "e", "r", " ", "t", "o", " ", "h", "t", "t", "p", ":", "/", "/", "x", "/", "y", ".">>)}}
    IN /\ Cardinality(hints) = 1
       /\ \A i \in DOMAIN region \ hints : region[i] = Block(<<"G", "o", "o", "d", " ", "l", "u", "c", "k">>)

\* C25: for every page whose only submission hint is the text
\* "Post your answer to <URL>" the endpoint returned is exactly <URL>, with
\* trailing punctuation stripped and nothing of a following line appended.
C25_PostYourAnswerUrlExact ==
    Parsed /\ OnlyPostYourAnswerHint => ret.submission_url = <<"h", "t", "t", "p", ":", "/", "/", "x", "/", "y">>

\* The seven extensions of the specification
SevenExtensions ==
    { <<".", "p", "d", "f">>, <<".", "c", "s", "v">>, <<".", "j", "s", "o", "n">>, <<".", "x", "l", "s", "x">>, <<".", "x", "l", "s">>, <<".", "t", "x", "t">>, <<".", "z", "i", "p">> }

Carries(s) == \E e \in SevenExtensions : Contains(Lower(s), e)

\* C26: the download endpoint is the first anchor href that carries one of
\* the seven extensions; without such an anchor it is the first URL of the
\* text that carries one; it is absent exactly when neither an anchor nor
\* the text holds one of the extensions.
C26_FirstAnchorThenText ==
    DOMAIN ret = {"done", "download_url"} /\ ret.done =>
        LET region == Region(arg)
            hrefs == Hrefs(region)
            urls == FindAllUrls(PlainText(region), 1)
            anchors == {i \in DOMAIN hrefs : Carries(hrefs[i])}
            in_text == {i \in DOMAIN urls : Carries(urls[i])}
        IN /\ (anchors # {} => ret.download_url = Some(hrefs[Min(anchors)]))
           /\ (anchors = {} /\ in_text # {} =>
                 ret.download_url =
                    Some(RStrip(urls[Min(in_text)], {".", ",", ";", ":", "\"", "'"})))
           /\ (ret.download_url = Absent) =
                 (anchors = {} /\ ~Carries(PlainText(region)))

\* The URL carries a scheme, as urlparse reads it
HasScheme(link) == urlparse(link, <<>>).scheme # <<>>

\* scheme and host of the page URL
Origin(base_url) ==
    LET parsed == urlparse(base_url, <<>>)
    IN parsed.scheme \o <<":", "/", "/">> \o parsed.netloc

\* C27: make_absolute_url returns a URL that carries a scheme unchanged and
\* resolves every other URL against scheme and host of the page URL, whose
\* path and query are dropped; a second call with the same page URL returns
\* what the first returned.
C27_SchemeKeptElseOriginRelative ==
    DOMAIN ret = {"calls", "url"} /\ ret.calls >= 1 =>
        /\ ret.calls = 1 =>
              ret.url = IF HasScheme(arg.url) THEN arg.url
                        ELSE urljoin(Origin(arg.base_url), arg.url)
        /\ ret.calls > 1 => ret.url = make_absolute_url(arg.url, arg.base_url)

Normalized == DOMAIN ret = {"calls", "outcomes"} /\ ret.calls >= 1

\* The text is wrapped in fence markers, and what the markers wrap: the
\* lines after the line of the opening marker, or what stands between the
\* markers of a single line
Wrapped(t) ==
    /\ Len(t) >= 2 * Len(Fence)
    /\ StartsWith(t, Fence)
    /\ EndsWith(t, Fence)
    /\ ~Contains(SubSeq(t, Len(Fence) + 1, Len(t) - Len(Fence)), Fence)
Unwrapped(t) ==
    LET inner == SubSeq(t, Len(Fence) + 1, Len(t) - Len(Fence))
        break == FindFirst(inner, 1, {"\n"})
    IN Strip(IF break <= Len(inner) THEN SubSeq(inner, break + 1, Len(inner))
             ELSE inner)

\* An optional minus sign, then digits only
IsIntegerLiteral(t) ==
    IsDigit(IF t # <<>> /\ t[1] = "-" THEN Tail(t) ELSE t)

IsAnswerObject(t) ==
    LET parsed == json_loads(t)
    IN /\ parsed.err = "none"
       /\ parsed.value.type = "dict"
       /\ HasKey(parsed.value.dict, <<"a", "n", "s", "w", "e", "r">>)

\* The outcome of the first rule that applies to a text without markers
FirstApplicable(t) ==
    LET parsed == json_loads(t)
        digits == DigitsValue(LStrip(t, {"-"}))
    IN IF IsAnswerObject(t) THEN GetItem(parsed.value.dict, <<"a", "n", "s", "w", "e", "r">>)
       ELSE IF Lower(t) = <<"t", "r", "u", "e">> THEN BoolValue(TRUE)
       ELSE IF Lower(t) = <<"f", "a", "l", "s", "e">> THEN BoolValue(FALSE)
       ELSE IF IsIntegerLiteral(t)
       THEN IntValue(IF t[1] = "-" THEN 0 - digits ELSE digits)
       ELSE IF DecimalParts(t).match THEN float(t)
       ELSE IF parsed.err = "none" THEN parsed.value
       ELSE StrValue(t)

\* C28: the Answer Normalizer returns the outcome of the first rule that
\* applies, in the order: fence markers stripped, answer key of a JSON
\* object, boolean in any letter case, integer, signed decimal, other JSON,
\* the text itself; an integer literal is never returned as a float and a
\* JSON object with an answer key is never returned whole.
C28_FirstApplicableRule ==
    Normalized /\ ret.outcomes[1].outcome = "returned" =>
        LET stripped == Strip(arg)
            text == IF Wrapped(stripped) THEN Unwrapped(stripped) ELSE stripped
            value == ret.outcomes[1].value
        IN Wrapped(stripped) \/ ~Contains(stripped, Fence) =>
              /\ value = FirstApplicable(text)
              /\ IsIntegerLiteral(text) => value.type # "float"
              /\ IsAnswerObject(text) => value # json_loads(text).value

\* C29: the Answer Normalizer returns a value for every text and never
\* raises to its caller, and every call on a text returns what the first
\* call returned.
C29_TotalAndDeterministic ==
    Normalized =>
        \A i \in DOMAIN ret.outcomes :
            /\ ret.outcomes[i].outcome = "returned"
            /\ ret.outcomes[i] = ret.outcomes[1]

DataDispatched ==
    DOMAIN ret = {"pc", "log"} /\ arg.quiz_content.quiz_type = "data"

\* C30: for a task of category data the dispatch first asks the vision
\* call to describe the page; the data solver is called only after that
\* call has returned, with the extracted question followed by the
\* description, and never with the bare question.
C30_DescriptionBeforeDataSolver ==
    DataDispatched =>
        /\ ret.log # <<>> =>
              ret.log[1].event = "call" /\ ret.log[1].to = "data_vision"
        /\ \A i \in DOMAIN ret.log :
              ret.log[i].event = "call" /\ ret.log[i].to = "solve_data" =>
                  /\ i > 2
                  /\ ret.log[i - 1].event = "return"
                  /\ ret.log[i - 1].to = "data_vision"
                  /\ \A j \in 1..(i - 1) : ret.log[j].to = "data_vision"
                  /\ StartsWith(ret.log[i].text, arg.question)
                  /\ EndsWith(ret.log[i].text, ret.log[i - 1].text)
                  /\ Len(ret.log[i].text)
                        >= Len(arg.question) + Len(ret.log[i - 1].text)
                  /\ ret.log[i].text # arg.question

C30_Witness ==
    /\ DataDispatched
    /\ ret.pc = "solve_data"
    /\ arg.question = <<"s", "u", "m", " ", "o", "f", " ", "x", "?">>
    /\ ret.log[2] = CameBack("data_vision", <<"a", " ", "t", "a", "b", "l", "e">>)
    /\ ret.log[3] = Called("solve_data",
                           <<"s", "u", "m", " ", "o", "f", " ", "x", "?", "\n", "\n", "P", "a", "g", "e", " ", "A", "n", "a", "l", "y", "s", "i", "s", ":", " ", "a", " ", "t", "a", "b", "l", "e">>)

ScrapeStarted == DOMAIN ret = {"pc", "log"} /\ ret.log # <<>>

CallsTo(to) == {i \in DOMAIN ret.log : ret.log[i].event = "call" /\ ret.log[i].to = to}

\* C31: for a task of category scraping, a relative path found in question
\* or raw content is fetched at the page's origin, and the fetched content
\* goes with the question to the text analysis, without an image and without
\* a vision call; when no path is found nothing is fetched and the vision
\* call answers from the current page.
C31_FetchPathElseVision ==
    ScrapeStarted =>
        LET path == scrape_url(arg.question, arg.raw_html)
        IN IF path # <<>>
           THEN /\ ret.log[1] = Called("scrape_fetch", Origin(arg.base_url) \o path)
                /\ CallsTo("vision") = {}
                /\ CallsTo("scrape_fetch") = {1}
                /\ \A i \in CallsTo("scrape_llm") :
                      /\ i = 3
                      /\ ret.log[2].event = "return"
                      /\ ret.log[2].to = "scrape_fetch"
                      /\ ret.log[3].text = arg.question
                      /\ ~ret.log[3].image
                      /\ Contains(ret.log[3].context, ret.log[1].text)
                      /\ EndsWith(ret.log[3].context, ret.log[2].text)
           ELSE /\ ret.log[1] = Called("vision", arg.question)
                /\ CallsTo("scrape_fetch") = {}
                /\ CallsTo("scrape_llm") = {}
                /\ CallsTo("vision") = {1}

C31_Witness ==
    /\ ScrapeStarted
    /\ ret.pc = "scrape_llm"
    /\ arg.question = <<"V", "i", "s", "i", "t", " ", "/", "p", " ", "n", "o", "w">>
    /\ ret.log[1] = Called("scrape_fetch", <<"h", "t", "t", "p", "s", ":", "/", "/", "h", "o", "s", "t", ".", "e", "x", "a", "m", "p", "l", "e", "/", "p">>)
    /\ ret.log[2] = CameBack("scrape_fetch", <<"<", "b", ">", "7", "<", "/", "b", ">">>)
    /\ ret.log[3].context = <<"S", "c", "r", "a", "p", "e", "d", " ", "c", "o", "n", "t", "e", "n", "t", " ", "f", "r", "o", "m", " ", "h", "t", "t", "p", "s", ":", "/", "/", "h", "o", "s", "t", ".", "e", "x", "a", "m", "p", "l", "e", "/", "p", ":", "\n", "<", "b", ">", "7", "<", "/", "b", ">">>

Dispatched == DOMAIN ret = {"pc", "log"} /\ ret.log # <<>>

\* The categories with a branch of their own before api
DedicatedCategories == {"pdf", "data", "scraping"}

\* The calls of the branch a category takes
BranchCalls(quiz_type) ==
    IF quiz_type = "pdf" THEN {"solve_pdf"}
    ELSE IF quiz_type = "data" THEN {"data_vision", "solve_data"}
    ELSE IF quiz_type = "scraping" THEN {"scrape_fetch", "scrape_llm", "vision"}
    ELSE IF quiz_type = "api" THEN {"api_llm"}
    ELSE {"vision"}

OneBranchByCategory ==
    \A i \in DOMAIN ret.log : ret.log[i].to \in BranchCalls(arg.quiz_content.quiz_type)

\* C32: tasks of category api, general and every category without a branch
\* of its own are answered by text analysis, never by a vision call while
\* text analysis is there; each step takes one dispatch branch, fixed by the
\* category.
C32_TextAnalysisForApiAndGeneral ==
    Dispatched =>
        /\ arg.quiz_content.quiz_type \notin DedicatedCategories =>
              ret.log[1] = Called("api_llm", arg.question)
        /\ OneBranchByCategory

\* C32 as amended: api tasks are answered by text analysis, general tasks
\* and every other category without a branch of its own by the vision call
\* on the screenshot, and nothing else is called; each step takes one
\* dispatch branch, fixed by the category.
C32_TextForApiVisionForGeneral ==
    Dispatched =>
        /\ arg.quiz_content.quiz_type = "api" =>
              /\ ret.log[1] = Called("api_llm", arg.question)
              /\ \A i \in DOMAIN ret.log : ret.log[i].to = "api_llm"
        /\ arg.quiz_content.quiz_type \notin DedicatedCategories \cup {"api"} =>
              /\ ret.log[1] = Called("vision", arg.question)
              /\ \A i \in DOMAIN ret.log : ret.log[i].to = "vision"
        /\ OneBranchByCategory

C32_Witness ==
    /\ Dispatched
    /\ arg.quiz_content.quiz_type = "general"
    /\ arg.question = <<"W", "h", "a", "t", " ", "i", "s", " ", "t", "h", "e", " ", "c", "o", "u", "n", "t", "?">>
    /\ ret.pc = "returned"
    /\ ret.log = << Called("vision", arg.question), CameBack("vision", <<>>) >>

Handed == "handed" \in DOMAIN ret

\* What the Answer Normalizer may hand to a submission
AnswerTypes == {"bool", "int", "float", "str", "list", "dict"}

\* C33: every answer a step submits, first attempt or retry, is what the
\* Answer Normalizer made of the solver's raw output of that step and is a
\* boolean, a number, a string or a structured value, never null.
C33_PostedAnswerNormalizedNeverNull ==
    Handed =>
        \A i \in DOMAIN ret.handed :
           /\ ret.handed[i].answer.type \in AnswerTypes
           /\ ret.handed[i].raw # Absent
           /\ parse_answer(ret.handed[i].raw[1]) = Returned(ret.handed[i].answer)

Posting == "sent" \in DOMAIN ret

\* C34: every POST carries the body {email, secret, url, answer} with the
\* credentials the chain was started with and the URL of the step's page;
\* the first attempt and the retry of a step go to the same absolute
\* endpoint and differ in nothing but the answer.
C34_FixedBodySameEndpoint ==
    Posting =>
        /\ \A i \in DOMAIN ret.sent :
              /\ DOMAIN ret.sent[i].json = {"email", "secret", "url", "answer"}
              /\ ret.sent[i].json.email = arg.email
              /\ ret.sent[i].json.secret = arg.secret
              /\ ret.sent[i].json.url = ret.url
              /\ HasScheme(ret.sent[i].to)
        /\ \A i, j \in DOMAIN ret.sent :
              /\ ret.sent[i].to = ret.sent[j].to
              /\ [ret.sent[i].json EXCEPT !.answer = Unset] =
                 [ret.sent[j].json EXCEPT !.answer = Unset]

\* The second step of a chain has posted twice, to an endpoint that was
\* relative on the page, with two answers.
C34_Witness ==
    /\ Posting
    /\ ret.question_count = 2
    /\ ret.url # arg.url
    /\ Len(ret.sent) = 2
    /\ ret.sent[1].json.answer # ret.sent[2].json.answer
    /\ ret.sent[1].to = <<"h", "t", "t", "p", ":", "/", "/", "h", ":", "8", "0", "8", "0", "/", "s", "u", "b", "m", "i", "t">>

Ended == {"closing", "done", "timed_out"}

\* C35: when the vision call of the retry raises after a first verdict that
\* was incorrect and had no nextUrl, the exception leaves the step: no result
\* is recorded for the step, the first verdict included, no second
\* submission is made, and the chain has ended.
C35_RetryFailureRecordsNothing ==
    failure.kind = "retry_vision" =>
        /\ Retriable(first_verdict)
        /\ pc \in Ended
        /\ exit_path \in {"exception", "timeout"}
        /\ Len(results) = question_count - 1
        /\ completed = question_count - 1
        /\ verdicts[question_count] = first_verdict
        /\ step_submits = 1
        /\ step_posts = 1

\* The retry of the second step failed after the first step was recorded.
C35_Witness ==
    /\ failure.kind = "retry_vision"
    /\ pc = "done"
    /\ question_count = 2
    /\ Len(results) = 1
    /\ first_verdict.reason = "r"
    /\ results[1] # first_verdict

EmptyUrlVerdict == first_verdict # NoResult /\ ~first_verdict.correct /\ first_verdict.url = ""

\* C36: a first verdict that is incorrect and whose url is the empty string
\* causes no retry: no further vision call and no second submission are
\* made, the verdict is recorded as the step's result, and the chain ends
\* with an empty current URL.
C36_EmptyUrlNoRetryEndsChain ==
    EmptyUrlVerdict =>
        /\ pc \in {"check", "record", "loop"} \cup Ended
        /\ step_submits = 1
        /\ vision_calls = vision_at_first
        /\ failure = NoFailure
        /\ (pc \in {"loop", "closing", "done"} =>
                /\ Len(results) = question_count
                /\ results[question_count] = first_verdict
                /\ current_url = "")
        /\ (pc = "loop" => ~LoopCond(current_url, question_count, MaxQuestions))

\* The first step of a chain ended it that way.
C36_Witness ==
    /\ EmptyUrlVerdict
    /\ pc = "done"
    /\ question_count = 1
    /\ results = <<first_verdict>>
    /\ current_url = ""
    /\ posts = 1

\* A step of the retry leaves the renders, the page and its descriptor alone
RetryKeepsPage ==
    pc \in {"check", "retry_vision", "submit2"} =>
        renders' = renders /\ url' = url /\ quiz_content' = quiz_content

\* C37: each step renders its page once, the retry rendering nothing and
\* keeping the step's page and descriptor: the renders of a chain equal its
\* step counter, whatever number of retries happened.
C37_OneRenderPerStep ==
    /\ [](renders = question_count)
    /\ [][RetryKeepsPage]_vars

\* Both steps of a chain were retried.
C37_Witness ==
    /\ pc = "record"
    /\ question_count = 2
    /\ step_submits = 2
    /\ posts = 4
    /\ renders = 2

\* A step that assigns cls._browser stores a browser where none was held
BrowserSetOnlyWhenAbsent == browser' # browser => browser = None /\ browser' = "running"

\* C38: under every interleaving of chains that call get_page and initialize
\* while no browser exists, a launch runs only under the lock and only while
\* no browser is held, so one launch at a time and no browser is created
\* beside one that is held.
C38_LaunchOnlyWhenAbsent ==
    /\ [](/\ \A c \in Chains :
                /\ c_pc[c] \in {"init_locked", "launching"} => lock = c
                /\ c_pc[c] = "launching" => browser = None
          /\ \A c, d \in Chains :
                c_pc[c] = "launching" /\ c_pc[d] = "launching" => c = d)
    /\ [][BrowserSetOnlyWhenAbsent]_vars

\* The second chain found no browser, waited for the lock while the first
\* launched, and holds the lock now that a browser is there.
C38_Witness ==
    /\ c_pc[2] = "init_locked"
    /\ lock = 2
    /\ browser = "running"
    /\ c_pc[1] \in {"new_context", "new_page", "in_try"}

\* get_page places its call of new_context on a running browser
ContextOpenedOnRunningBrowser ==
    \A c \in Chains :
        c_pc[c] # "new_context" /\ c_pc'[c] = "new_context" => browser' = "running"

\* C39: under every interleaving of get_page with cleanup, get_page never
\* opens a context on an absent or an already closed browser.
C39_ContextOnlyOnLiveBrowser == [][ContextOpenedOnRunningBrowser]_vars
====
